---------------------------- MODULE Spec2Model ----------------------------
(***************************************************************************)
(* Model of the workflow-use recorder extension.                           *)
(*                                                                         *)
(*   background.ts : the background script.  It stores the events that     *)
(*                   content scripts and the tabs API deliver in per-tab   *)
(*                   session logs, converts the logs into Steps and emits  *)
(*                   a WORKFLOW_UPDATE when the hash of the Steps changed. *)
(*   wxt.config.ts : the content script.  It turns DOM events into the     *)
(*                   messages the background receives.                     *)
(*                                                                         *)
(* JavaScript `undefined` / missing string fields are the empty string     *)
(* (the code only tests them for truthiness); a missing screenshot is      *)
(* NoShot.  Sequences are 1-based, so an undefined index is 0.             *)
(***************************************************************************)
EXTENDS Integers, Sequences, FiniteSets, TLC

VARIABLES
    now,                  \* Date.now(), in ms
    sessionLogs,          \* background: tabId -> stored events
    tabInfo,              \* background: tabId -> url first seen for the tab
    activatedTabs,        \* background: tabs brought to the foreground
    recentNewTabIntents,  \* background: openerTabId -> time of PREPARE_NEW_TAB
    isRecordingEnabled,   \* background: recording switch
    lastWorkflowHash,     \* background: hash of the last emitted Steps
    captures,             \* captureVisibleTab calls whose callback is pending
    evals,                \* broadcastWorkflowDataUpdate calls awaiting the hash
    serverLog,            \* the most recent events handed to sendEventToServer
    lastInputRecord,      \* content script: xpath -> last sent value and time
    domInputs,            \* the input events the page fired, and their outcome
    domKeys,              \* the keydown events the page fired, and their outcome
    scrollTimeout,        \* content script: the debounce timer and its sample
    lastScrollY,          \* content script: y of the last scroll sample
    lastDirection,        \* content script: direction of the current gesture
    scrollLog,            \* the scroll samples rrweb emitted and the messages sent
    tabEvents,            \* the tab events chrome fired, and their outcome
    posts,                \* the fetch calls of sendEventToServer in flight
    received,             \* the events the server received
    failed,               \* the events whose fetch failed
    document,             \* the elements of the page, in document order
    isRecordingActive,    \* content script: the recorder is running
    currentOverlay,       \* content script: the green overlay of mouseover
    currentFocusOverlay,  \* content script: the red overlay of focus
    lastResolution,       \* how the last overlay found its element
    stopRecording,        \* content script: rrweb's stop function is held
    lastStatus,           \* the last recording status the content script got
    domClicks,            \* the clicks the frames of the page fired
    statusMessages,       \* the recording statuses on their way to the page
    workflow,             \* engine: the Steps of the run
    context,              \* engine: the names the Variable Context holds
    current,              \* engine: the Step the run is at
    stepState,            \* engine: state of each Step
    stepError,            \* engine: the error captured for each Step
    strategies,           \* engine: what the Selector Resolver found per Step
    recoveryRequests,     \* engine: the requests made to the Recovery Agent
    runStatus             \* engine: status of the run

vars == <<now, sessionLogs, tabInfo, activatedTabs, recentNewTabIntents,
          isRecordingEnabled, lastWorkflowHash, captures, evals, serverLog,
          lastInputRecord, domInputs, domKeys, scrollTimeout, lastScrollY,
          lastDirection, scrollLog, tabEvents, posts, received, failed,
          document, isRecordingActive, currentOverlay, currentFocusOverlay,
          lastResolution, stopRecording, lastStatus, domClicks,
          statusMessages, workflow, context, current, stepState, stepError,
          strategies, recoveryRequests, runStatus>>

bgVars == <<sessionLogs, tabInfo, activatedTabs, recentNewTabIntents,
            isRecordingEnabled, lastWorkflowHash, captures, evals, serverLog>>

scrollVars == <<scrollTimeout, lastScrollY, lastDirection, scrollLog>>

netVars == <<posts, received, failed>>

\* what the page handlers and the tab listeners leave alone
overlayVars == <<document, isRecordingActive, currentOverlay,
                 currentFocusOverlay, lastResolution>>

engineVars == <<workflow, context, current, stepState, stepError, strategies,
                recoveryRequests, runStatus>>

\* the recorder of the content script, and the clicks observed
recorderVars == <<stopRecording, lastStatus, domClicks, statusMessages>>

\* what the recording switch of the background leaves alone
switchVars == <<lastInputRecord, domInputs, domKeys, scrollTimeout,
                lastScrollY, lastDirection, scrollLog, tabEvents, netVars,
                overlayVars, engineVars, stopRecording, lastStatus, domClicks>>

restVars == <<netVars, overlayVars, engineVars, recorderVars>>

csVars == <<lastInputRecord, domInputs, domKeys, scrollVars, tabEvents,
            restVars>>

---------------------------------------------------------------------------
(* Bounds of the model *)

NumTabs == 2
MaxEvents == 3
MaxCaptures == 1
MaxEvals == 2
MaxTime == 5000
TickMs == 2500
HistoryLen == 2
MaxDomInputs == 3
MaxDomKeys == 2
MaxTabEvents == 2
MaxPosts == 2
MaxScrollTime == 1250
ScrollTickMs == 250
MaxScrollLog == 6
MaxScrollY == 2
MaxStatusMessages == 2

Tabs == 1..NumTabs

---------------------------------------------------------------------------
(* Program constants *)

NEW_TAB_INTENT_WINDOW_MS == 4000
EMPTY_COLLAPSE_MS == 5000
DEBOUNCE_MS_INPUT == 1500
EMPTY_REPEAT_MS == 5000
DEBOUNCE_MS == 500

\* @rrweb/types
EventType_IncrementalSnapshot == 3
EventType_Meta == 4
IncrementalSource_Scroll == 3

PasswordMask == "********"
NoShot == ""
NoHash == [none |-> TRUE]

---------------------------------------------------------------------------
(* Stored events and Steps *)

BlankEvent ==
    [messageType |-> "", timestamp |-> 0, tabId |-> 0, url |-> "",
     frameUrl |-> "", xpath |-> "", cssSelector |-> "", elementTag |-> "",
     value |-> "", key |-> "", screenshot |-> NoShot,
     type |-> 0 - 1, source |-> 0 - 1, id |-> 0, x |-> 0, y |-> 0, href |-> "",
     isTopFrame |-> TRUE, openerTabId |-> 0, userInitiated |-> FALSE,
     changeUrl |-> "", hasData |-> TRUE]

BlankStep ==
    [type |-> "", timestamp |-> 0, tabId |-> 0, url |-> "", frameUrl |-> "",
     xpath |-> "", cssSelector |-> "", elementTag |-> "", value |-> "",
     key |-> "", screenshot |-> NoShot, targetId |-> 0, scrollX |-> 0,
     scrollY |-> 0]

\* r with the fields of o overriding
With(r, o) == o @@ r

NavigationStep(ts, tabId, url) ==
    With(BlankStep, [type |-> "navigation", timestamp |-> ts, tabId |-> tabId,
                     url |-> url])

ClickStep(click) ==
    With(BlankStep, [type |-> "click", timestamp |-> click.timestamp,
                     tabId |-> click.tabId, url |-> click.url,
                     frameUrl |-> click.frameUrl, xpath |-> click.xpath,
                     cssSelector |-> click.cssSelector,
                     elementTag |-> click.elementTag,
                     screenshot |-> click.screenshot])

InputStep(inputEvent) ==
    With(BlankStep, [type |-> "input", timestamp |-> inputEvent.timestamp,
                     tabId |-> inputEvent.tabId, url |-> inputEvent.url,
                     frameUrl |-> inputEvent.frameUrl,
                     xpath |-> inputEvent.xpath,
                     cssSelector |-> inputEvent.cssSelector,
                     elementTag |-> inputEvent.elementTag,
                     value |-> inputEvent.value,
                     screenshot |-> inputEvent.screenshot])

KeyPressStep(keyEvent) ==
    With(BlankStep, [type |-> "key_press", timestamp |-> keyEvent.timestamp,
                     tabId |-> keyEvent.tabId, url |-> keyEvent.url,
                     frameUrl |-> keyEvent.frameUrl, key |-> keyEvent.key,
                     xpath |-> keyEvent.xpath,
                     cssSelector |-> keyEvent.cssSelector,
                     elementTag |-> keyEvent.elementTag,
                     screenshot |-> keyEvent.screenshot])

ScrollStep(rrEvent, url) ==
    With(BlankStep, [type |-> "scroll", timestamp |-> rrEvent.timestamp,
                     tabId |-> rrEvent.tabId, targetId |-> rrEvent.id,
                     scrollX |-> rrEvent.x, scrollY |-> rrEvent.y,
                     url |-> url])

---------------------------------------------------------------------------
(* convertStoredEventsToSteps.  The loop state is the Steps built so far   *)
(* and the two local tables; activated and info are the background's       *)
(* activatedTabs and tabInfo at the time of the conversion.  threw: the     *)
(* loop was left by a TypeError.                                           *)

ConvInit == [steps |-> <<>>, lastNavigationIndexByTab |-> [t \in Tabs |-> 0],
             lastInputPerKey |-> <<>>, threw |-> FALSE]

\* a tab case that would append a navigation Step for every tab event
ConvTabEventAppending(st, event, activated) ==
    LET navUrl == IF event.url # "" THEN event.url ELSE event.changeUrl
        tabId == event.tabId
    IN  IF navUrl = "" THEN st
        ELSE IF tabId \notin activated /\ ~event.userInitiated THEN st
        ELSE [st EXCEPT !.steps = Append(@, NavigationStep(event.timestamp,
                                                           tabId, navUrl)),
                        !.lastNavigationIndexByTab[tabId] = Len(st.steps) + 1]

ConvTabEvent(st, event, activated) ==
    LET navUrl == IF event.url # "" THEN event.url ELSE event.changeUrl
        tabId == event.tabId
        existingIdx == st.lastNavigationIndexByTab[tabId]
    IN  IF navUrl = "" THEN st
        ELSE IF tabId \notin activated /\ ~event.userInitiated THEN st
        ELSE IF existingIdx # 0 /\ st.steps[existingIdx].type = "navigation"
        THEN [st EXCEPT !.steps[existingIdx].url = navUrl,
                        !.steps[existingIdx].timestamp = event.timestamp]
        ELSE [st EXCEPT !.steps = Append(@, NavigationStep(event.timestamp,
                                                           tabId, navUrl)),
                        !.lastNavigationIndexByTab[tabId] = Len(st.steps) + 1]

\* a click case that would merge a click into a preceding click Step of the
\* same element, as the input case does for inputs
ConvClickEventMerging(st, click) ==
    LET n == Len(st.steps)
    IN  IF click.url # "" /\ click.xpath # "" /\ click.elementTag # ""
        THEN IF /\ n > 0
                /\ st.steps[n].type = "click"
                /\ st.steps[n].xpath = click.xpath
                /\ st.steps[n].url = click.url
             THEN [st EXCEPT !.steps[n].timestamp = click.timestamp]
             ELSE [st EXCEPT !.steps = Append(@, ClickStep(click))]
        ELSE st

ConvClickEvent(st, click) ==
    IF click.url # "" /\ click.xpath # "" /\ click.elementTag # ""
    THEN [st EXCEPT !.steps = Append(@, ClickStep(click))]
    ELSE st

InputMatchesStep(lastStep, inputEvent) ==
    /\ lastStep.type = "input"
    /\ lastStep.tabId = inputEvent.tabId
    /\ lastStep.url = inputEvent.url
    /\ lastStep.frameUrl = inputEvent.frameUrl
    /\ lastStep.xpath = inputEvent.xpath
    /\ lastStep.cssSelector = inputEvent.cssSelector
    /\ lastStep.elementTag = inputEvent.elementTag

InputKey(inputEvent) == <<inputEvent.tabId, inputEvent.xpath>>

\* the "collapse rapid-fire repeated empties" test of the input case
IsEmptyRepeat(st, inputEvent) ==
    LET key == InputKey(inputEvent)
    IN  /\ inputEvent.value = ""
        /\ key \in DOMAIN st.lastInputPerKey
        /\ st.lastInputPerKey[key].value = ""
        /\ inputEvent.timestamp - st.lastInputPerKey[key].ts < EMPTY_COLLAPSE_MS

\* an input case whose in-place update would keep the Step's first screenshot
ConvInputEventKeepingScreenshot(st, inputEvent) ==
    IF inputEvent.url # "" /\ inputEvent.xpath # "" /\ inputEvent.elementTag # ""
    THEN LET key == InputKey(inputEvent)
             nowTs == inputEvent.timestamp
             n == Len(st.steps)
         IN  IF IsEmptyRepeat(st, inputEvent)
             THEN [st EXCEPT !.steps[st.lastInputPerKey[key].idx].timestamp = nowTs]
             ELSE IF n > 0 /\ InputMatchesStep(st.steps[n], inputEvent)
             THEN [st EXCEPT !.steps[n].value = inputEvent.value,
                             !.steps[n].timestamp = inputEvent.timestamp,
                             !.lastInputPerKey =
                                 (key :> [idx |-> n, ts |-> nowTs,
                                          value |-> inputEvent.value]) @@ @]
             ELSE [st EXCEPT !.steps = Append(@, InputStep(inputEvent)),
                             !.lastInputPerKey =
                                 (key :> [idx |-> n + 1, ts |-> nowTs,
                                          value |-> inputEvent.value]) @@ @]
    ELSE st

\* an input case whose collapse of a repeated empty value would also take
\* the event's screenshot
ConvInputEventCollapsingScreenshot(st, inputEvent) ==
    IF inputEvent.url # "" /\ inputEvent.xpath # "" /\ inputEvent.elementTag # ""
    THEN LET key == InputKey(inputEvent)
             nowTs == inputEvent.timestamp
             n == Len(st.steps)
         IN  IF IsEmptyRepeat(st, inputEvent)
             THEN [st EXCEPT !.steps[st.lastInputPerKey[key].idx].timestamp = nowTs,
                             !.steps[st.lastInputPerKey[key].idx].screenshot =
                                 inputEvent.screenshot]
             ELSE IF n > 0 /\ InputMatchesStep(st.steps[n], inputEvent)
             THEN [st EXCEPT !.steps[n].value = inputEvent.value,
                             !.steps[n].timestamp = inputEvent.timestamp,
                             !.steps[n].screenshot = inputEvent.screenshot,
                             !.lastInputPerKey =
                                 (key :> [idx |-> n, ts |-> nowTs,
                                          value |-> inputEvent.value]) @@ @]
             ELSE [st EXCEPT !.steps = Append(@, InputStep(inputEvent)),
                             !.lastInputPerKey =
                                 (key :> [idx |-> n + 1, ts |-> nowTs,
                                          value |-> inputEvent.value]) @@ @]
    ELSE st

ConvInputEvent(st, inputEvent) ==
    IF inputEvent.url # "" /\ inputEvent.xpath # "" /\ inputEvent.elementTag # ""
    THEN LET key == InputKey(inputEvent)
             nowTs == inputEvent.timestamp
             n == Len(st.steps)
         IN  IF IsEmptyRepeat(st, inputEvent)
             THEN [st EXCEPT !.steps[st.lastInputPerKey[key].idx].timestamp = nowTs]
             ELSE IF n > 0 /\ InputMatchesStep(st.steps[n], inputEvent)
             THEN [st EXCEPT !.steps[n].value = inputEvent.value,
                             !.steps[n].timestamp = inputEvent.timestamp,
                             !.steps[n].screenshot = inputEvent.screenshot,
                             !.lastInputPerKey =
                                 (key :> [idx |-> n, ts |-> nowTs,
                                          value |-> inputEvent.value]) @@ @]
             ELSE [st EXCEPT !.steps = Append(@, InputStep(inputEvent)),
                             !.lastInputPerKey =
                                 (key :> [idx |-> n + 1, ts |-> nowTs,
                                          value |-> inputEvent.value]) @@ @]
    ELSE st

ConvKeyEvent(st, keyEvent) ==
    IF keyEvent.url # "" /\ keyEvent.key # ""
    THEN [st EXCEPT !.steps = Append(@, KeyPressStep(keyEvent))]
    ELSE st

\* a test that would leave the target id out
ScrollMatchesAnyTarget(st, rrEvent) ==
    LET n == Len(st.steps)
    IN  /\ n > 0
        /\ st.steps[n].type = "scroll"
        /\ st.steps[n].tabId = rrEvent.tabId

\* the last Step is a scroll Step of the event's tab and target id
ScrollMatchesStep(st, rrEvent) ==
    LET n == Len(st.steps)
    IN  /\ n > 0
        /\ st.steps[n].type = "scroll"
        /\ st.steps[n].tabId = rrEvent.tabId
        /\ st.steps[n].targetId = rrEvent.id

ConvRrwebEvent(st, rrEvent, info) ==
    LET n == Len(st.steps)
    IN  IF rrEvent.type = EventType_IncrementalSnapshot /\ ~rrEvent.hasData
        THEN \* rrEvent.data.source of an undefined data
             [st EXCEPT !.threw = TRUE]
        ELSE IF rrEvent.type = EventType_IncrementalSnapshot
           /\ rrEvent.source = IncrementalSource_Scroll
        THEN IF ScrollMatchesStep(st, rrEvent)
             THEN [st EXCEPT !.steps[n].scrollX = rrEvent.x,
                             !.steps[n].scrollY = rrEvent.y,
                             !.steps[n].timestamp = rrEvent.timestamp]
             ELSE [st EXCEPT !.steps = Append(@, ScrollStep(rrEvent,
                                                    info[rrEvent.tabId]))]
        ELSE IF rrEvent.type = EventType_Meta /\ rrEvent.hasData
                /\ rrEvent.href # ""
        THEN [st EXCEPT !.steps = Append(@, NavigationStep(rrEvent.timestamp,
                                                rrEvent.tabId, rrEvent.href))]
        ELSE st

ConvEvent(st, event, activated, info) ==
    CASE event.messageType \in {"CUSTOM_TAB_CREATED", "CUSTOM_TAB_UPDATED",
                                "CUSTOM_TAB_ACTIVATED"}
            -> ConvTabEvent(st, event, activated)
      [] event.messageType = "CUSTOM_CLICK_EVENT" -> ConvClickEvent(st, event)
      [] event.messageType = "CUSTOM_INPUT_EVENT" -> ConvInputEvent(st, event)
      [] event.messageType = "CUSTOM_KEY_EVENT" -> ConvKeyEvent(st, event)
      [] event.messageType = "RRWEB_EVENT" -> ConvRrwebEvent(st, event, info)
      [] OTHER -> st

RECURSIVE ConvLoop(_, _, _, _, _)
ConvLoop(events, i, st, activated, info) ==
    IF i > Len(events) \/ st.threw THEN st
    ELSE ConvLoop(events, i + 1, ConvEvent(st, events[i], activated, info),
                  activated, info)

\* the loop state after the first k events of a log
ConvPrefix(events, k, activated, info) ==
    ConvLoop(SubSeq(events, 1, k), 1, ConvInit, activated, info)

convertStoredEventsToSteps(events, activated, info) ==
    ConvLoop(events, 1, ConvInit, activated, info).steps

---------------------------------------------------------------------------
(* broadcastWorkflowDataUpdate: the synchronous part builds allSteps, the  *)
(* part after `await calculateSHA256` compares and emits.                  *)

\* Array.prototype.sort is stable: s goes after the elements that do not
\* compare greater
RECURSIVE InsertByTimestamp(_, _)
InsertByTimestamp(sorted, s) ==
    IF sorted = <<>> THEN <<s>>
    ELSE IF Head(sorted).timestamp - s.timestamp <= 0
    THEN <<Head(sorted)>> \o InsertByTimestamp(Tail(sorted), s)
    ELSE <<s>> \o sorted

RECURSIVE SortByTimestamp(_, _, _)
SortByTimestamp(seq, i, acc) ==
    IF i > Len(seq) THEN acc
    ELSE SortByTimestamp(seq, i + 1, InsertByTimestamp(acc, seq[i]))

\* Object.keys lists integer keys in ascending order
RECURSIVE FlatMapTabs(_, _, _, _)
FlatMapTabs(logs, tabId, activated, info) ==
    IF tabId > NumTabs THEN <<>>
    ELSE convertStoredEventsToSteps(logs[tabId], activated, info)
         \o FlatMapTabs(logs, tabId + 1, activated, info)

AllStepsOf(logs, activated, info) ==
    SortByTimestamp(FlatMapTabs(logs, 1, activated, info), 1, <<>>)

\* the flatMap is left by the TypeError of one tab's conversion
ConversionThrows(logs, activated, info) ==
    \E t \in Tabs : ConvLoop(logs[t], 1, ConvInit, activated, info).threw

allSteps == AllStepsOf(sessionLogs, activatedTabs, tabInfo)

\* JSON.stringify(allSteps) keeps every field of every Step; SHA-256 is taken
\* to be free of collisions, so the digest stands for the serialized Steps
calculateSHA256(str) == [sha256 |-> str]

\* a serialization that would leave the screenshots out
JSONstringifyWithoutScreenshots(steps) ==
    [k \in DOMAIN steps |-> [steps[k] EXCEPT !.screenshot = NoShot]]

JSONstringify(steps) == steps

KeepLast(seq, n) ==
    IF Len(seq) <= n THEN seq ELSE SubSeq(seq, Len(seq) - n + 1, Len(seq))

sendEventToServer(log, eventData) == KeepLast(Append(log, eventData), HistoryLen)

TotalEvents(logs) ==
    LET RECURSIVE Sum(_)
        Sum(t) == IF t > NumTabs THEN 0 ELSE Len(logs[t]) + Sum(t + 1)
    IN  Sum(1)

---------------------------------------------------------------------------
(* Background: shared pieces of the handlers *)

\* the synchronous part of broadcastWorkflowDataUpdate(), run on the logs as
\* the caller left them: it queues the evaluation that awaits the hash, or,
\* when the conversion throws, a promise that is rejected
BroadcastCall(logs, activated, info) ==
    evals' = Append(evals,
                    IF ConversionThrows(logs, activated, info)
                    THEN [steps |-> <<>>, threw |-> TRUE]
                    ELSE [steps |-> AllStepsOf(logs, activated, info),
                          threw |-> FALSE])

IntentIsRecent(openerTabId) ==
    /\ openerTabId # 0
    /\ openerTabId \in DOMAIN recentNewTabIntents
    /\ now - recentNewTabIntents[openerTabId] < NEW_TAB_INTENT_WINDOW_MS

\* a test that would accept an intent of the opener whatever its age
TabEventPassesAnyIntent(type, payload, activated) ==
    \/ type = "CUSTOM_TAB_ACTIVATED"
    \/ payload.tabId \in activated
    \/ /\ payload.openerTabId # 0
       /\ payload.openerTabId \in DOMAIN recentNewTabIntents

\* the visibility test of sendTabEvent
TabEventPasses(type, payload, activated) ==
    \/ type = "CUSTOM_TAB_ACTIVATED"
    \/ payload.tabId \in activated
    \/ IntentIsRecent(payload.openerTabId)

\* a sendTabEvent that would keep one log for all the tabs
sendTabEventToOneLog(type, payload, activated) ==
    IF /\ isRecordingEnabled
       /\ payload.tabId # 0
       /\ TabEventPasses(type, payload, activated)
    THEN /\ TotalEvents(sessionLogs) < MaxEvents
         /\ Len(evals) < MaxEvals
         /\ sessionLogs' =
              [sessionLogs EXCEPT ![1] =
                  Append(@, With(payload, [messageType |-> type,
                                           timestamp |-> now]))]
         /\ BroadcastCall(sessionLogs', activated, tabInfo)
    ELSE UNCHANGED <<sessionLogs, evals>>

\* sendTabEvent(type, payload); activated is activatedTabs as the listener
\* left it before the call
sendTabEvent(type, payload, activated) ==
    IF /\ isRecordingEnabled
       /\ payload.tabId # 0
       /\ TabEventPasses(type, payload, activated)
    THEN /\ TotalEvents(sessionLogs) < MaxEvents
         /\ Len(evals) < MaxEvals
         /\ sessionLogs' =
              [sessionLogs EXCEPT ![payload.tabId] =
                  Append(@, With(payload, [messageType |-> type,
                                           timestamp |-> now]))]
         /\ BroadcastCall(sessionLogs', activated, tabInfo)
    ELSE UNCHANGED <<sessionLogs, evals>>

\* storeEvent(eventPayload, screenshotDataUrl) of the message listener
storeEvent(tabId, messageType, eventPayload, screenshotDataUrl, senderTabUrl) ==
    /\ TotalEvents(sessionLogs) < MaxEvents
    /\ Len(evals) < MaxEvals
    /\ tabInfo' = IF senderTabUrl # "" /\ tabInfo[tabId] = ""
                  THEN [tabInfo EXCEPT ![tabId] = senderTabUrl]
                  ELSE tabInfo
    /\ sessionLogs' =
         [sessionLogs EXCEPT ![tabId] =
             Append(@, With(eventPayload, [tabId |-> tabId,
                                           messageType |-> messageType,
                                           screenshot |-> screenshotDataUrl]))]
    /\ BroadcastCall(sessionLogs', activatedTabs, tabInfo')

customEventTypes ==
    {"CUSTOM_CLICK_EVENT", "CUSTOM_INPUT_EVENT", "CUSTOM_SELECT_EVENT",
     "CUSTOM_KEY_EVENT", "PREPARE_NEW_TAB"}

\* chrome.runtime.onMessage listener, for a message of a content script of
\* tab tabId; hasWindowId: sender.tab.windowId is set
onContentMessage(tabId, type, payload, hasWindowId, senderTabUrl) ==
    IF ~isRecordingEnabled \/ tabId = 0
    THEN UNCHANGED <<sessionLogs, tabInfo, recentNewTabIntents, captures, evals>>
    ELSE IF type = "PREPARE_NEW_TAB"
    THEN /\ recentNewTabIntents' = (tabId :> now) @@ recentNewTabIntents
         /\ UNCHANGED <<sessionLogs, tabInfo, captures, evals>>
    ELSE IF type \in customEventTypes /\ hasWindowId
    THEN /\ Len(captures) < MaxCaptures
         /\ captures' = Append(captures, [tabId |-> tabId, type |-> type,
                                          payload |-> payload,
                                          senderTabUrl |-> senderTabUrl])
         /\ UNCHANGED <<sessionLogs, tabInfo, recentNewTabIntents, evals>>
    ELSE /\ storeEvent(tabId, type, payload, NoShot, senderTabUrl)
         /\ UNCHANGED <<recentNewTabIntents, captures>>

RemoveAt(seq, i) == SubSeq(seq, 1, i - 1) \o SubSeq(seq, i + 1, Len(seq))

---------------------------------------------------------------------------
(* Background: actions *)

Tick ==
    /\ now + TickMs <= MaxTime
    /\ now' = now + TickMs
    /\ UNCHANGED <<bgVars, csVars>>

\* chrome.tabs.onActivated listener
onActivated(tabId) ==
    /\ activatedTabs' = activatedTabs \cup {tabId}
    /\ sendTabEvent("CUSTOM_TAB_ACTIVATED", With(BlankEvent, [tabId |-> tabId]),
                    activatedTabs')
    /\ UNCHANGED <<tabInfo, recentNewTabIntents, isRecordingEnabled,
                   lastWorkflowHash, captures, serverLog>>

\* chrome.tabs.onCreated listener
onCreated(tabId, openerTabId, url) ==
    /\ sendTabEvent("CUSTOM_TAB_CREATED",
                    With(BlankEvent, [tabId |-> tabId,
                                      openerTabId |-> openerTabId,
                                      url |-> url,
                                      userInitiated |-> IntentIsRecent(openerTabId)]),
                    activatedTabs)
    /\ UNCHANGED <<tabInfo, activatedTabs, recentNewTabIntents,
                   isRecordingEnabled, lastWorkflowHash, captures, serverLog>>

\* chrome.tabs.onUpdated listener, for a change of url or status "complete"
onUpdated(tabId, url, changeUrl) ==
    /\ sendTabEvent("CUSTOM_TAB_UPDATED",
                    With(BlankEvent, [tabId |-> tabId, url |-> url,
                                      changeUrl |-> changeUrl]),
                    activatedTabs)
    /\ UNCHANGED <<tabInfo, activatedTabs, recentNewTabIntents,
                   isRecordingEnabled, lastWorkflowHash, captures, serverLog>>

\* chrome.tabs.onRemoved listener
onRemoved(tabId) ==
    /\ sendTabEvent("CUSTOM_TAB_REMOVED", With(BlankEvent, [tabId |-> tabId]),
                    activatedTabs)
    /\ UNCHANGED <<tabInfo, activatedTabs, recentNewTabIntents,
                   isRecordingEnabled, lastWorkflowHash, captures, serverLog>>

TabActivated(tabId) == onActivated(tabId) /\ UNCHANGED <<now, csVars>>

TabCreated(tabId, openerTabId, url) ==
    onCreated(tabId, openerTabId, url) /\ UNCHANGED <<now, csVars>>

TabUpdated(tabId, url, changeUrl) ==
    onUpdated(tabId, url, changeUrl) /\ UNCHANGED <<now, csVars>>

TabRemoved(tabId) == onRemoved(tabId) /\ UNCHANGED <<now, csVars>>

\* no intent is recorded for the opener
NoIntent == 0 - 1

\* what chrome fired and what the listener found and did: the tab's log
\* grew by one event of that type, or no log changed
TabEventRecord(type, tabId, openerTabId) ==
    [type |-> type, tabId |-> tabId, openerTabId |-> openerTabId, at |-> now,
     recording |-> isRecordingEnabled,
     wasActivated |-> tabId \in activatedTabs,
     intentAt |-> IF openerTabId \in DOMAIN recentNewTabIntents
                  THEN recentNewTabIntents[openerTabId] ELSE NoIntent,
     stored |-> /\ Len(sessionLogs'[tabId]) = Len(sessionLogs[tabId]) + 1
                /\ sessionLogs'[tabId][Len(sessionLogs'[tabId])].messageType = type
                /\ SubSeq(sessionLogs'[tabId], 1, Len(sessionLogs[tabId]))
                     = sessionLogs[tabId]
                /\ \A u \in Tabs \ {tabId} : sessionLogs'[u] = sessionLogs[u],
     untouched |-> sessionLogs' = sessionLogs]

ObserveTabEvent(type, tabId, openerTabId) ==
    /\ Len(tabEvents) < MaxTabEvents
    /\ tabEvents' = Append(tabEvents, TabEventRecord(type, tabId, openerTabId))
    /\ UNCHANGED <<now, lastInputRecord, domInputs, domKeys, scrollVars,
                   restVars>>

\* the listeners, with the event and its outcome noted
ObservedTabActivated(tabId) ==
    onActivated(tabId) /\ ObserveTabEvent("CUSTOM_TAB_ACTIVATED", tabId, 0)

ObservedTabCreated(tabId, openerTabId, url) ==
    /\ onCreated(tabId, openerTabId, url)
    /\ ObserveTabEvent("CUSTOM_TAB_CREATED", tabId, openerTabId)

ObservedTabUpdated(tabId, url, changeUrl) ==
    /\ onUpdated(tabId, url, changeUrl)
    /\ ObserveTabEvent("CUSTOM_TAB_UPDATED", tabId, 0)

ObservedTabRemoved(tabId) ==
    onRemoved(tabId) /\ ObserveTabEvent("CUSTOM_TAB_REMOVED", tabId, 0)

\* broadcastRecordingStatus(): chrome.tabs.query is called; its callback,
\* which reads isRecordingEnabled and sends SET_RECORDING_STATUS, runs later
broadcastRecordingStatus ==
    /\ Len(statusMessages) < MaxStatusMessages
    /\ statusMessages' = Append(statusMessages,
                                [type |-> "SET_RECORDING_STATUS",
                                 payload |-> "query"])

\* the payload that tells a content script whether recording is enabled
StatusOf(enabled) == IF enabled THEN "enabled" ELSE "disabled"

\* the callback of chrome.tabs.query of the oldest broadcast still waiting
TabsQueried ==
    /\ \E k \in DOMAIN statusMessages :
          /\ statusMessages[k].payload = "query"
          /\ \A j \in 1..(k - 1) : statusMessages[j].payload # "query"
          /\ statusMessages' =
                [statusMessages EXCEPT ![k].payload = StatusOf(isRecordingEnabled)]
    /\ UNCHANGED <<now, bgVars, switchVars>>

\* the sidepanel's STOP_RECORDING
StopRecording ==
    /\ IF isRecordingEnabled
       THEN /\ isRecordingEnabled' = FALSE
            /\ broadcastRecordingStatus
            /\ serverLog' = sendEventToServer(serverLog,
                                              [type |-> "RECORDING_STOPPED",
                                               timestamp |-> now])
       ELSE UNCHANGED <<isRecordingEnabled, serverLog, statusMessages>>
    /\ UNCHANGED <<now, sessionLogs, tabInfo, activatedTabs,
                   recentNewTabIntents, lastWorkflowHash, captures, evals,
                   switchVars>>

\* the sidepanel's START_RECORDING
StartRecording ==
    /\ sessionLogs' = [t \in Tabs |-> <<>>]
    /\ tabInfo' = [t \in Tabs |-> ""]
    /\ IF ~isRecordingEnabled
       THEN /\ isRecordingEnabled' = TRUE
            /\ broadcastRecordingStatus
            /\ serverLog' = sendEventToServer(serverLog,
                                              [type |-> "RECORDING_STARTED",
                                               timestamp |-> now])
       ELSE UNCHANGED <<isRecordingEnabled, serverLog, statusMessages>>
    /\ UNCHANGED <<now, activatedTabs, recentNewTabIntents, lastWorkflowHash,
                   captures, evals, switchVars>>

\* a message of a content script arrives
ContentMessage(tabId, type, payload, hasWindowId, senderTabUrl) ==
    /\ onContentMessage(tabId, type, payload, hasWindowId, senderTabUrl)
    /\ UNCHANGED <<now, activatedTabs, isRecordingEnabled, lastWorkflowHash,
                   serverLog, csVars>>

\* a callback that would store the event only when the capture succeeded
CaptureDoneDroppingFailed(i, dataUrl) ==
    /\ i \in 1..Len(captures)
    /\ captures' = RemoveAt(captures, i)
    /\ IF dataUrl = NoShot
       THEN UNCHANGED <<sessionLogs, tabInfo, evals>>
       ELSE storeEvent(captures[i].tabId, captures[i].type, captures[i].payload,
                       dataUrl, captures[i].senderTabUrl)
    /\ UNCHANGED <<now, activatedTabs, recentNewTabIntents, isRecordingEnabled,
                   lastWorkflowHash, serverLog, csVars>>

\* the callback of a captureVisibleTab call runs, with the image or with
\* chrome.runtime.lastError set (dataUrl = NoShot)
CaptureDone(i, dataUrl) ==
    /\ i \in 1..Len(captures)
    /\ captures' = RemoveAt(captures, i)
    /\ storeEvent(captures[i].tabId, captures[i].type, captures[i].payload,
                  dataUrl, captures[i].senderTabUrl)
    /\ UNCHANGED <<now, activatedTabs, recentNewTabIntents, isRecordingEnabled,
                   lastWorkflowHash, serverLog, csVars>>

\* a resumption that would emit without comparing the hashes
BroadcastResumeAlways(i) ==
    /\ i \in 1..Len(evals)
    /\ evals' = RemoveAt(evals, i)
    /\ lastWorkflowHash' = calculateSHA256(JSONstringify(evals[i].steps))
    /\ serverLog' = sendEventToServer(serverLog,
                                      [type |-> "WORKFLOW_UPDATE",
                                       steps |-> evals[i].steps])
    /\ UNCHANGED <<now, sessionLogs, tabInfo, activatedTabs,
                   recentNewTabIntents, isRecordingEnabled, captures, csVars>>

\* broadcastWorkflowDataUpdate resumes after `await calculateSHA256`
BroadcastResume(i) ==
    /\ i \in 1..Len(evals)
    /\ evals' = RemoveAt(evals, i)
    /\ LET currentWorkflowHash == calculateSHA256(JSONstringify(evals[i].steps))
       IN  IF evals[i].threw
           THEN UNCHANGED <<lastWorkflowHash, serverLog>>
           ELSE IF lastWorkflowHash # NoHash /\ currentWorkflowHash = lastWorkflowHash
           THEN UNCHANGED <<lastWorkflowHash, serverLog>>
           ELSE /\ lastWorkflowHash' = currentWorkflowHash
                /\ serverLog' =
                     sendEventToServer(serverLog,
                                       [type |-> "WORKFLOW_UPDATE",
                                        steps |-> evals[i].steps])
    /\ UNCHANGED <<now, sessionLogs, tabInfo, activatedTabs,
                   recentNewTabIntents, isRecordingEnabled, captures, csVars>>

\* the evaluation reaches the call of sendEventToServer
BroadcastSends(i) ==
    /\ ~evals[i].threw
    /\ ~(/\ lastWorkflowHash # NoHash
         /\ calculateSHA256(JSONstringify(evals[i].steps)) = lastWorkflowHash)

\* the number of fetch calls made so far
NumPosts == Len(posts) + Len(received) + Len(failed)

\* broadcastWorkflowDataUpdate resumes, and the fetch of sendEventToServer
\* is followed: the call returns to its caller while the request is in flight
BroadcastResumePosting(i) ==
    /\ i \in 1..Len(evals)
    /\ Len(posts) < MaxPosts
    /\ evals' = RemoveAt(evals, i)
    /\ IF BroadcastSends(i)
       THEN /\ lastWorkflowHash' = calculateSHA256(JSONstringify(evals[i].steps))
            /\ serverLog' =
                 sendEventToServer(serverLog,
                                   [type |-> "WORKFLOW_UPDATE",
                                    steps |-> evals[i].steps])
            /\ posts' = Append(posts, [seq |-> NumPosts + 1,
                                       type |-> "WORKFLOW_UPDATE",
                                       steps |-> evals[i].steps])
       ELSE UNCHANGED <<lastWorkflowHash, serverLog, posts>>
    /\ UNCHANGED <<now, sessionLogs, tabInfo, activatedTabs,
                   recentNewTabIntents, isRecordingEnabled, captures,
                   lastInputRecord, domInputs, domKeys, scrollVars, tabEvents,
                   received, failed, overlayVars, engineVars, recorderVars>>

\* the fetch of sendEventToServer settles: the server has the event, or the
\* request failed and the catch block logs a warning
FetchDone(i, ok) ==
    /\ i \in 1..Len(posts)
    /\ posts' = RemoveAt(posts, i)
    /\ IF ok
       THEN received' = Append(received, posts[i]) /\ UNCHANGED failed
       ELSE failed' = Append(failed, posts[i]) /\ UNCHANGED received
    /\ UNCHANGED <<now, bgVars, lastInputRecord, domInputs, domKeys,
                   scrollVars, tabEvents, overlayVars, engineVars,
                   recorderVars>>

---------------------------------------------------------------------------
(* Content script: the input handler *)

\* the elements of the page: their address and their input type
Elements ==
    {[xpath |-> "A", cssSelector |-> "input.a", elementTag |-> "INPUT",
      type |-> "text"],
     [xpath |-> "P", cssSelector |-> "input.p", elementTag |-> "INPUT",
      type |-> "password"]}

PageUrl == "https://site/page"

\* an attribute or label of an element; the elements of the page carry none
\* but the ones their record names
Attr(element, name) ==
    IF name \in DOMAIN element THEN element[name] ELSE ""

\* the first candidate that is not empty, undefined ("") when there is none;
\* the texts of the model hold no blanks and are shorter than 200 characters,
\* so trim() and slice(0, 200) leave them as they are
FirstNonEmpty(candidates) ==
    IF \E k \in DOMAIN candidates : candidates[k] # ""
    THEN candidates[CHOOSE k \in DOMAIN candidates :
                        /\ candidates[k] # ""
                        /\ \A j \in 1..(k - 1) : candidates[j] = ""]
    ELSE ""

\* computeTargetText(element), element.value being value
computeTargetText(element, value) ==
    LET labelText == Attr(element, "labelText")
        ariaLabel == Attr(element, "ariaLabel")
        ariaLabelledBy == Attr(element, "ariaLabelledBy")
        placeholder == Attr(element, "placeholder")
        title == Attr(element, "title")
        textContent == Attr(element, "textContent")
    IN  IF \/ element.elementTag = "BUTTON"
           \/ /\ element.elementTag = "INPUT"
              /\ element.type \in {"button", "submit"}
        THEN FirstNonEmpty(<<textContent, labelText, ariaLabel, ariaLabelledBy,
                             title, value>>)
        ELSE IF element.elementTag \in {"INPUT", "TEXTAREA", "SELECT"}
        THEN FirstNonEmpty(<<labelText, placeholder, ariaLabel, ariaLabelledBy,
                             title, value, textContent>>)
        ELSE FirstNonEmpty(<<labelText, ariaLabel, ariaLabelledBy, textContent,
                             title>>)

\* an inputData that would carry the element's text whatever its type
InputDataUnmasked(targetElement, targetValue) ==
    With(BlankEvent,
         [timestamp |-> now, url |-> PageUrl, frameUrl |-> PageUrl,
          xpath |-> targetElement.xpath,
          cssSelector |-> targetElement.cssSelector,
          elementTag |-> targetElement.elementTag,
          value |-> targetValue,
          targetText |-> computeTargetText(targetElement, targetValue)])

\* inputData of handleInput
InputData(targetElement, targetValue) ==
    With(BlankEvent,
         [timestamp |-> now, url |-> PageUrl, frameUrl |-> PageUrl,
          xpath |-> targetElement.xpath,
          cssSelector |-> targetElement.cssSelector,
          elementTag |-> targetElement.elementTag,
          value |-> IF targetElement.type = "password" THEN PasswordMask
                    ELSE targetValue,
          targetText |-> computeTargetText(targetElement, targetValue)])

\* a rule 1 that would only look at the value when the timestamp is the same
IsNoisyDuplicateSameInstant(record, inputData) ==
    /\ inputData.xpath \in DOMAIN record
    /\ record[inputData.xpath].value = inputData.value
    /\ inputData.timestamp - record[inputData.xpath].ts < 0

\* dedupe rule 1: value unchanged for this element within the debounce window
IsNoisyDuplicate(record, inputData) ==
    /\ inputData.xpath \in DOMAIN record
    /\ record[inputData.xpath].value = inputData.value
    /\ inputData.timestamp - record[inputData.xpath].ts < DEBOUNCE_MS_INPUT

\* dedupe rule 2: empty value, and empty already recorded in the last 5 s
IsRepeatedEmpty(record, inputData) ==
    /\ inputData.value = ""
    /\ inputData.xpath \in DOMAIN record
    /\ record[inputData.xpath].value = ""
    /\ inputData.timestamp - record[inputData.xpath].ts < EMPTY_REPEAT_MS

\* handleInput sends the event
InputIsSent(record, inputData, isTrusted) ==
    /\ isTrusted
    /\ ~IsNoisyDuplicate(record, inputData)
    /\ ~IsRepeatedEmpty(record, inputData)

\* handleInput(event) in the content script of tab tabId, the target
\* holding targetValue; the message, when sent, is taken by the background's
\* listener
handleInput(tabId, targetElement, targetValue, isTrusted) ==
    LET inputData == InputData(targetElement, targetValue)
        sent == InputIsSent(lastInputRecord[tabId], inputData, isTrusted)
    IN  /\ Len(domInputs) < MaxDomInputs
        /\ domInputs' = Append(domInputs,
                               [tabId |-> tabId, xpath |-> targetElement.xpath,
                                type |-> targetElement.type,
                                typed |-> targetValue,
                                value |-> inputData.value,
                                timestamp |-> inputData.timestamp,
                                isTrusted |-> isTrusted,
                                sent |-> sent])
        /\ IF sent
           THEN /\ lastInputRecord' =
                     [lastInputRecord EXCEPT ![tabId] =
                         (inputData.xpath :> [value |-> inputData.value,
                                              ts |-> inputData.timestamp]) @@ @]
                /\ onContentMessage(tabId, "CUSTOM_INPUT_EVENT", inputData,
                                    TRUE, PageUrl)
           ELSE UNCHANGED <<lastInputRecord, sessionLogs, tabInfo,
                            recentNewTabIntents, captures, evals>>

DomInput(tabId, targetElement, targetValue, isTrusted) ==
    /\ handleInput(tabId, targetElement, targetValue, isTrusted)
    /\ UNCHANGED <<now, activatedTabs, isRecordingEnabled, lastWorkflowHash,
                   serverLog, domKeys, scrollVars, tabEvents, restVars>>

---------------------------------------------------------------------------
(* Content script: the frame of a message, and the click handler *)

MaxFrameDepth == 2
MaxChildFrames == 2
MaxDomClicks == 1

\* the loop of computeFrameIdPath gives up after this many parts
MaxFramePathParts == 10

\* the windows of a tab, each the child indices from the top document to it
Windows ==
    UNION {[1..d -> 0..(MaxChildFrames - 1)] : d \in 0..MaxFrameDepth}

TopWindow == <<>>

\* window.parent; the top window is its own parent
Parent(w) == IF w = TopWindow THEN w ELSE SubSeq(w, 1, Len(w) - 1)

\* parent.frames, by index
FramesOf(w) ==
    IF Len(w) < MaxFrameDepth
    THEN [i \in 0..(MaxChildFrames - 1) |-> Append(w, i)]
    ELSE <<>>

\* the index the for loop finds for the window among parent.frames, 0 when it
\* finds none
IndexAmongFrames(parent, win) ==
    LET frames == FramesOf(parent)
    IN  IF \E i \in DOMAIN frames : frames[i] = win
        THEN CHOOSE i \in DOMAIN frames :
                 /\ frames[i] = win
                 /\ \A j \in DOMAIN frames : frames[j] = win => i <= j
        ELSE 0

\* parts.join('.')
RECURSIVE Join(_)
Join(parts) ==
    IF Len(parts) = 1 THEN ToString(parts[1])
    ELSE ToString(parts[1]) \o "." \o Join(Tail(parts))

\* the while loop of computeFrameIdPath
RECURSIVE FramePathParts(_, _)
FramePathParts(win, parts) ==
    IF win = Parent(win) THEN parts
    ELSE LET parent == Parent(win)
             unshifted == <<IndexAmongFrames(parent, win)>> \o parts
         IN  IF Len(unshifted) > MaxFramePathParts THEN unshifted
             ELSE FramePathParts(parent, unshifted)

\* computeFrameIdPath() in window w
computeFrameIdPath(w) ==
    LET parts == FramePathParts(w, <<>>)
    IN  IF Len(parts) > 0 THEN Join(parts) ELSE "0"

\* clickData of handleCustomClick in window w
ClickData(w, targetElement, targetValue) ==
    With(BlankEvent,
         [timestamp |-> now, url |-> PageUrl, frameUrl |-> PageUrl,
          frameIdPath |-> computeFrameIdPath(w),
          xpath |-> targetElement.xpath,
          cssSelector |-> targetElement.cssSelector,
          elementTag |-> targetElement.elementTag,
          elementText |-> Attr(targetElement, "textContent"),
          targetText |-> computeTargetText(targetElement, targetValue)])

\* handleCustomClick(event) in the content script of window w of tab tabId,
\* the target holding targetValue
handleCustomClick(tabId, w, targetElement, targetValue) ==
    IF ~isRecordingActive
    THEN UNCHANGED <<domClicks, sessionLogs, tabInfo, recentNewTabIntents,
                     captures, evals>>
    ELSE LET clickData == ClickData(w, targetElement, targetValue)
         IN  /\ Len(domClicks) < MaxDomClicks
             /\ domClicks' = Append(domClicks,
                                    [tabId |-> tabId, window |-> w,
                                     type |-> targetElement.type,
                                     typed |-> targetValue,
                                     message |-> clickData])
             /\ onContentMessage(tabId, "CUSTOM_CLICK_EVENT", clickData,
                                 TRUE, PageUrl)

DomClick(tabId, w, targetElement, targetValue) ==
    /\ handleCustomClick(tabId, w, targetElement, targetValue)
    /\ UNCHANGED <<now, activatedTabs, isRecordingEnabled, lastWorkflowHash,
                   serverLog, lastInputRecord, domInputs, domKeys, scrollVars,
                   tabEvents, netVars, overlayVars, engineVars, stopRecording,
                   lastStatus, statusMessages>>

---------------------------------------------------------------------------
(* Content script: the select and keydown handlers *)

SelectElement ==
    [xpath |-> "S", cssSelector |-> "select.s", elementTag |-> "SELECT",
     type |-> "select-one"]

\* selectData of handleSelectChange
SelectData(targetElement, selectedValue) ==
    With(BlankEvent,
         [timestamp |-> now, url |-> PageUrl, frameUrl |-> PageUrl,
          xpath |-> targetElement.xpath,
          cssSelector |-> targetElement.cssSelector,
          elementTag |-> targetElement.elementTag,
          selectedValue |-> selectedValue, selectedText |-> selectedValue])

\* handleSelectChange(event)
handleSelectChange(tabId, targetElement, selectedValue) ==
    IF targetElement.elementTag # "SELECT"
    THEN UNCHANGED <<sessionLogs, tabInfo, recentNewTabIntents, captures, evals>>
    ELSE onContentMessage(tabId, "CUSTOM_SELECT_EVENT",
                          SelectData(targetElement, selectedValue), TRUE, PageUrl)

DomSelectChange(tabId, targetElement, selectedValue) ==
    /\ handleSelectChange(tabId, targetElement, selectedValue)
    /\ UNCHANGED <<now, activatedTabs, isRecordingEnabled, lastWorkflowHash,
                   serverLog, csVars>>

CAPTURED_KEYS ==
    {"Enter", "Tab", "Escape", "ArrowUp", "ArrowDown", "ArrowLeft",
     "ArrowRight", "Home", "End", "PageUp", "PageDown", "Backspace", "Delete"}

LowerCaseLetters ==
    <<"a", "b", "c", "d", "e", "f", "g", "h", "i", "j", "k", "l", "m",
      "n", "o", "p", "q", "r", "s", "t", "u", "v", "w", "x", "y", "z">>

UpperCaseLetters ==
    <<"A", "B", "C", "D", "E", "F", "G", "H", "I", "J", "K", "L", "M",
      "N", "O", "P", "Q", "R", "S", "T", "U", "V", "W", "X", "Y", "Z">>

Digits == {"0", "1", "2", "3", "4", "5", "6", "7", "8", "9"}

Range(seq) == {seq[k] : k \in 1..Len(seq)}

\* the characters of the class [a-zA-Z0-9]
AlphaNumerics == Range(LowerCaseLetters) \cup Range(UpperCaseLetters) \cup Digits

\* key.toUpperCase() of a key of one character
toUpperCase(key) ==
    IF key \in Range(LowerCaseLetters)
    THEN UpperCaseLetters[CHOOSE k \in 1..Len(LowerCaseLetters) :
                              LowerCaseLetters[k] = key]
    ELSE key

\* a keyToLog that would take every key of one character pressed with a
\* modifier
keyToLogAnyCharacter(key, ctrlKey, metaKey) ==
    IF key \in CAPTURED_KEYS THEN key
    ELSE IF (ctrlKey \/ metaKey) /\ Len(key) = 1
    THEN "CmdOrCtrl+" \o toUpperCase(key)
    ELSE ""

\* keyToLog of handleKeydown; "" when the key is not logged
keyToLog(key, ctrlKey, metaKey) ==
    IF key \in CAPTURED_KEYS THEN key
    ELSE IF (ctrlKey \/ metaKey) /\ Len(key) = 1 /\ key \in AlphaNumerics
    THEN "CmdOrCtrl+" \o toUpperCase(key)
    ELSE ""

\* keyData of handleKeydown, the target being an element of the page
KeyData(targetElement, loggedKey) ==
    With(BlankEvent,
         [timestamp |-> now, url |-> PageUrl, frameUrl |-> PageUrl,
          key |-> loggedKey, xpath |-> targetElement.xpath,
          cssSelector |-> targetElement.cssSelector,
          elementTag |-> targetElement.elementTag])

\* handleKeydown(event)
handleKeydown(tabId, targetElement, key, ctrlKey, metaKey) ==
    LET loggedKey == keyToLog(key, ctrlKey, metaKey)
    IN  /\ Len(domKeys) < MaxDomKeys
        /\ domKeys' = Append(domKeys,
                             [tabId |-> tabId, key |-> key, ctrlKey |-> ctrlKey,
                              metaKey |-> metaKey, timestamp |-> now,
                              sent |-> loggedKey # ""])
        /\ IF loggedKey # ""
           THEN onContentMessage(tabId, "CUSTOM_KEY_EVENT",
                                 KeyData(targetElement, loggedKey), TRUE, PageUrl)
           ELSE UNCHANGED <<sessionLogs, tabInfo, recentNewTabIntents,
                            captures, evals>>

DomKeydown(tabId, targetElement, key, ctrlKey, metaKey) ==
    /\ handleKeydown(tabId, targetElement, key, ctrlKey, metaKey)
    /\ UNCHANGED <<now, activatedTabs, isRecordingEnabled, lastWorkflowHash,
                   serverLog, lastInputRecord, domInputs, scrollVars, tabEvents,
                   restVars>>

---------------------------------------------------------------------------
(* Content script: the overlays of mouseover and focus *)

MaxDomNodes == 2
MaxCoord == 2

ClassNames == {"a"}

\* getBoundingClientRect of the elements: cells of one row
Rects == {[left |-> l, right |-> l, top |-> 0, bottom |-> 0] : l \in 0..1}

\* the children of body, in document order
DomNodes ==
    [id : {"", "x"}, tagName : {"DIV", "INPUT"}, classList : SUBSET ClassNames,
     rect : Rects]

Documents == UNION {[1..n -> DomNodes] : n \in 1..MaxDomNodes}

\* clientX, clientY of the mouse: in the first cell, in the second, and
\* below the row
Points == {<<0, 0>>, <<1, 0>>, <<0, MaxCoord>>}

NoNode == 0

NoOverlay == [shown |-> FALSE]

NoResolution == [handler |-> "none"]

\* the elements among index, in document order
RECURSIVE InDocumentOrder(_, _)
InDocumentOrder(index, from) ==
    IF from > Len(document) THEN <<>>
    ELSE (IF from \in index THEN <<from>> ELSE <<>>)
         \o InDocumentOrder(index, from + 1)

\* id("...") for an element with an id, and else the path from body
getXPath(element) ==
    IF document[element].id # ""
    THEN [id |-> document[element].id, path |-> ""]
    ELSE [id |-> "",
          path |-> [tagName |-> document[element].tagName,
                    ix |-> Cardinality({k \in 1..(element - 1) :
                              document[k].tagName = document[element].tagName})
                           + 1]]

\* document.evaluate(xpath, document, null, FIRST_ORDERED_NODE_TYPE):
\* id("...") selects the elements of that id; a path that starts at body
\* selects nothing from the document node, whose element child is html
evaluate(xpath) ==
    LET found == InDocumentOrder({k \in 1..Len(document) :
                                    xpath.id # "" /\ document[k].id = xpath.id}, 1)
    IN  IF found = <<>> THEN NoNode ELSE found[1]

\* the tag and the classes of the element
getEnhancedCSSSelector(element) ==
    [tagName |-> document[element].tagName,
     classList |-> document[element].classList]

Matches(k, selector) ==
    /\ document[k].tagName = selector.tagName
    /\ selector.classList \subseteq document[k].classList

querySelectorAll(selector) ==
    InDocumentOrder({k \in 1..Len(document) : Matches(k, selector)}, 1)

querySelector(selector) ==
    LET elements == querySelectorAll(selector)
    IN  IF elements = <<>> THEN NoNode ELSE elements[1]

Contains(rect, clientX, clientY) ==
    /\ clientX >= rect.left
    /\ clientX <= rect.right
    /\ clientY >= rect.top
    /\ clientY <= rect.bottom

UnderMouseOrFirst(elements, clientX, clientY) ==
    LET under == {i \in 1..Len(elements) :
                    Contains(document[elements[i]].rect, clientX, clientY)}
    IN  IF elements = <<>> THEN NoNode
        ELSE IF under = {} THEN elements[1]
        ELSE elements[CHOOSE i \in under : \A j \in under : i <= j]

\* the first element of the list under the mouse
UnderMouse(elements, clientX, clientY) ==
    LET under == {i \in 1..Len(elements) :
                    Contains(document[elements[i]].rect, clientX, clientY)}
    IN  IF under = {} THEN NoNode
        ELSE elements[CHOOSE i \in under : \A j \in under : i <= j]

Overlay(element) ==
    IF element = NoNode THEN NoOverlay
    ELSE [shown |-> TRUE, rect |-> document[element].rect]

handleMouseOver(targetElement, clientX, clientY) ==
    /\ isRecordingActive
    /\ LET xpath == getXPath(targetElement)
           byXPath == evaluate(xpath)
           elements == querySelectorAll(getEnhancedCSSSelector(targetElement))
           elementToHighlight ==
               IF byXPath # NoNode THEN byXPath
               ELSE UnderMouse(elements, clientX, clientY)
       IN  /\ currentOverlay' = Overlay(elementToHighlight)
           /\ lastResolution' =
                  [handler |-> "mouseover", target |-> targetElement,
                   byXPath |-> byXPath, selectorEvaluated |-> byXPath = NoNode,
                   point |-> <<clientX, clientY>>,
                   element |-> elementToHighlight]
    /\ UNCHANGED <<document, isRecordingActive, currentFocusOverlay>>

handleMouseOut ==
    /\ isRecordingActive
    /\ currentOverlay' = NoOverlay
    /\ UNCHANGED <<document, isRecordingActive, currentFocusOverlay,
                   lastResolution>>

handleFocus(targetElement) ==
    /\ isRecordingActive
    /\ document[targetElement].tagName \in {"INPUT", "TEXTAREA", "SELECT"}
    /\ LET xpath == getXPath(targetElement)
           byXPath == evaluate(xpath)
           elementToHighlight ==
               IF byXPath # NoNode THEN byXPath
               ELSE querySelector(getEnhancedCSSSelector(targetElement))
       IN  /\ currentFocusOverlay' = Overlay(elementToHighlight)
           /\ lastResolution' =
                  [handler |-> "focus", target |-> targetElement,
                   byXPath |-> byXPath, selectorEvaluated |-> byXPath = NoNode,
                   point |-> <<>>, element |-> elementToHighlight]
    /\ UNCHANGED <<document, isRecordingActive, currentOverlay>>

handleBlur ==
    /\ isRecordingActive
    /\ currentFocusOverlay' = NoOverlay
    /\ UNCHANGED <<document, isRecordingActive, currentOverlay, lastResolution>>

\* stopRecorder: when rrweb's stop function is held the listeners are
\* removed, the overlays stay; otherwise nothing happens
stopRecorder ==
    /\ IF stopRecording
       THEN /\ stopRecording' = FALSE
            /\ isRecordingActive' = FALSE
       ELSE UNCHANGED <<stopRecording, isRecordingActive>>
    /\ UNCHANGED <<document, currentOverlay, currentFocusOverlay,
                   lastResolution>>

handlerVars == <<now, bgVars, lastInputRecord, domInputs, domKeys, scrollVars,
                 tabEvents, netVars, engineVars, lastStatus, domClicks,
                 statusMessages>>

pageVars == <<handlerVars, stopRecording>>

MouseOver(targetElement, clientX, clientY) ==
    handleMouseOver(targetElement, clientX, clientY) /\ UNCHANGED pageVars

MouseOut == handleMouseOut /\ UNCHANGED pageVars

Focus(targetElement) == handleFocus(targetElement) /\ UNCHANGED pageVars

Blur == handleBlur /\ UNCHANGED pageVars

StopRecorder == stopRecorder /\ UNCHANGED handlerVars

---------------------------------------------------------------------------
(* Execution Engine: one run of a workflow, Step by Step.  The engine is  *)
(* the backend's workflow service, of which the repository's sources here *)
(* hold the description only.                                             *)

MaxSteps == 2

VariableNames == {"v"}

Descriptions == {"d1", "d2"}

\* a Step: its free-text description, the variables its textual fields
\* name as {variable}, and the outputs it declares
WorkflowSteps ==
    [description : Descriptions, placeholders : SUBSET VariableNames,
     outputs : SUBSET VariableNames]

Workflows == UNION {[1..n -> WorkflowSteps] : n \in 1..MaxSteps}

TerminalStates == {"Succeeded", "FailedRecovered", "FailedFatal"}

NoStrategies == [tried |-> FALSE]

\* a run created with its inputs, no Step begun
InitRun(steps, inputs) ==
    /\ workflow = steps
    /\ context = inputs
    /\ current = 1
    /\ stepState = [i \in 1..Len(steps) |-> "Pending"]
    /\ stepError = [i \in 1..Len(steps) |-> "none"]
    /\ strategies = [i \in 1..Len(steps) |-> NoStrategies]
    /\ recoveryRequests = <<>>
    /\ runStatus = "running"

IsCurrent(i, state) ==
    /\ runStatus = "running"
    /\ i = current
    /\ i \in 1..Len(workflow)
    /\ stepState[i] = state

SubstituteLeavingPlaceholders(i) ==
    /\ IsCurrent(i, "Pending")
    /\ stepState' = [stepState EXCEPT ![i] = "Resolving"]
    /\ UNCHANGED <<workflow, context, current, stepError, strategies,
                   recoveryRequests, runStatus>>

\* Pending -> Resolving: the placeholders are substituted from the Variable
\* Context; an unresolved placeholder is MissingVariable, fatal, no retry
Substitute(i) ==
    /\ IsCurrent(i, "Pending")
    /\ IF workflow[i].placeholders \subseteq context
       THEN /\ stepState' = [stepState EXCEPT ![i] = "Resolving"]
            /\ UNCHANGED <<stepError, runStatus>>
       ELSE /\ stepState' = [stepState EXCEPT ![i] = "FailedFatal"]
            /\ stepError' = [stepError EXCEPT ![i] = "MissingVariable"]
            /\ runStatus' = "aborted"
    /\ UNCHANGED <<workflow, context, current, strategies, recoveryRequests>>

\* Resolving: the Selector Resolver tries the position path, then the
\* attribute expression; neither finding an element is ElementNotFound
Resolve(i, byPositionPath, byAttributes) ==
    /\ IsCurrent(i, "Resolving")
    /\ strategies' = [strategies EXCEPT ![i] =
                         [tried |-> TRUE, positionPath |-> byPositionPath,
                          attributes |-> ~byPositionPath /\ byAttributes]]
    /\ IF byPositionPath \/ byAttributes
       THEN /\ stepState' = [stepState EXCEPT ![i] = "Acting"]
            /\ UNCHANGED stepError
       ELSE /\ stepState' = [stepState EXCEPT ![i] = "Escalating"]
            /\ stepError' = [stepError EXCEPT ![i] = "ElementNotFound"]
    /\ UNCHANGED <<workflow, context, current, recoveryRequests, runStatus>>

\* Acting: the action through the Browser Driver; an error it reports
\* escalates as ElementNotFound does
Act(i, ok) ==
    /\ IsCurrent(i, "Acting")
    /\ IF ok
       THEN /\ stepState' = [stepState EXCEPT ![i] = "Succeeded"]
            /\ UNCHANGED stepError
       ELSE /\ stepState' = [stepState EXCEPT ![i] = "Escalating"]
            /\ stepError' = [stepError EXCEPT ![i] = "ActionError"]
    /\ UNCHANGED <<workflow, context, current, strategies, recoveryRequests,
                   runStatus>>

EscalateWithFirstDescription(i) ==
    /\ IsCurrent(i, "Escalating")
    /\ stepState' = [stepState EXCEPT ![i] = "Recovering"]
    /\ recoveryRequests' =
           Append(recoveryRequests,
                  [step |-> i, description |-> workflow[1].description,
                   error |-> stepError[i]])
    /\ UNCHANGED <<workflow, context, current, stepError, strategies, runStatus>>

\* Escalating -> Recovering: the recovery request goes to the Recovery Agent
Escalate(i) ==
    /\ IsCurrent(i, "Escalating")
    /\ stepState' = [stepState EXCEPT ![i] = "Recovering"]
    /\ recoveryRequests' =
           Append(recoveryRequests,
                  [step |-> i, description |-> workflow[i].description,
                   error |-> stepError[i]])
    /\ UNCHANGED <<workflow, context, current, stepError, strategies, runStatus>>

RecoverEscalatingAgain(i, outcome) ==
    /\ IsCurrent(i, "Recovering")
    /\ stepState' = [stepState EXCEPT ![i] =
                        IF outcome = "satisfied" THEN "FailedRecovered"
                        ELSE "Escalating"]
    /\ UNCHANGED <<workflow, context, current, stepError, strategies,
                   recoveryRequests, runStatus>>

\* Recovering: the agent returns satisfied or exhausted
Recover(i, outcome) ==
    /\ IsCurrent(i, "Recovering")
    /\ IF outcome = "satisfied"
       THEN /\ stepState' = [stepState EXCEPT ![i] = "FailedRecovered"]
            /\ UNCHANGED <<stepError, runStatus>>
       ELSE /\ stepState' = [stepState EXCEPT ![i] = "FailedFatal"]
            /\ stepError' = [stepError EXCEPT ![i] = "RecoveryExhausted"]
            /\ runStatus' = "partially completed"
    /\ UNCHANGED <<workflow, context, current, strategies, recoveryRequests>>

\* a run-level timeout or a cancellation aborts the recovery in flight
Cancel(i) ==
    /\ IsCurrent(i, "Recovering")
    /\ stepState' = [stepState EXCEPT ![i] = "FailedFatal"]
    /\ runStatus' = "aborted"
    /\ UNCHANGED <<workflow, context, current, stepError, strategies,
                   recoveryRequests>>

FinishWithoutOutputs(i) ==
    /\ runStatus = "running"
    /\ i = current
    /\ i \in 1..Len(workflow)
    /\ stepState[i] \in {"Succeeded", "FailedRecovered"}
    /\ current' = i + 1
    /\ runStatus' = IF i = Len(workflow) THEN "completed" ELSE runStatus
    /\ UNCHANGED <<workflow, context, stepState, stepError, strategies,
                   recoveryRequests>>

\* Succeeded / FailedRecovered: the outputs the Step declares are written
\* into the Variable Context, and the run moves to the next Step
Finish(i) ==
    /\ runStatus = "running"
    /\ i = current
    /\ i \in 1..Len(workflow)
    /\ stepState[i] \in {"Succeeded", "FailedRecovered"}
    /\ context' = context \cup workflow[i].outputs
    /\ current' = i + 1
    /\ runStatus' = IF i = Len(workflow) THEN "completed" ELSE runStatus
    /\ UNCHANGED <<workflow, stepState, stepError, strategies, recoveryRequests>>

nonEngineVars == <<now, bgVars, lastInputRecord, domInputs, domKeys, scrollVars,
                   tabEvents, netVars, overlayVars, recorderVars>>

NextEngine ==
    \E i \in 1..MaxSteps :
        \/ Substitute(i) /\ UNCHANGED nonEngineVars
        \/ \E byPositionPath \in BOOLEAN, byAttributes \in BOOLEAN :
              Resolve(i, byPositionPath, byAttributes) /\ UNCHANGED nonEngineVars
        \/ \E ok \in BOOLEAN : Act(i, ok) /\ UNCHANGED nonEngineVars
        \/ Escalate(i) /\ UNCHANGED nonEngineVars
        \/ \E outcome \in {"satisfied", "exhausted"} :
              Recover(i, outcome) /\ UNCHANGED nonEngineVars
        \/ Cancel(i) /\ UNCHANGED nonEngineVars
        \/ Finish(i) /\ UNCHANGED nonEngineVars

---------------------------------------------------------------------------
(* Messages the background receives from content scripts *)

NextUrl == "https://site/next"

ClickPayload(ts, url, xpath, elementTag) ==
    With(BlankEvent, [timestamp |-> ts, url |-> url, frameUrl |-> url,
                      xpath |-> xpath, cssSelector |-> "css",
                      elementTag |-> elementTag])

InputPayload(ts, xpath, value) ==
    With(BlankEvent, [timestamp |-> ts, url |-> PageUrl, frameUrl |-> PageUrl,
                      xpath |-> xpath, cssSelector |-> "css",
                      elementTag |-> "INPUT", value |-> value])

MetaPayload(ts, href, isTopFrame) ==
    With(BlankEvent, [timestamp |-> ts, type |-> EventType_Meta,
                      href |-> href, frameUrl |-> href,
                      isTopFrame |-> isTopFrame])

\* a click with every field, and one without url, without address, without tag
ClickPayloads(ts) ==
    {ClickPayload(ts, PageUrl, "A", "BUTTON"), ClickPayload(ts, "", "A", "BUTTON"),
     ClickPayload(ts, PageUrl, "", "BUTTON"), ClickPayload(ts, PageUrl, "A", "")}

\* rrweb's Meta event of the top document and of an about:blank iframe
MetaPayloads(ts) ==
    {MetaPayload(ts, PageUrl, TRUE), MetaPayload(ts, "about:blank", FALSE)}

InputPayloads(ts) == {InputPayload(ts, "B", v) : v \in {"", "x", "xy"}}

\* input events of a second field of the page
OtherInputPayloads(ts) == {InputPayload(ts, "C", v) : v \in {"", "x"}}

KeyPayload(ts, url, key) ==
    With(BlankEvent, [timestamp |-> ts, url |-> url, frameUrl |-> url,
                      key |-> key, xpath |-> "A", cssSelector |-> "css",
                      elementTag |-> "INPUT"])

\* rrweb's scroll event of node id, as the content script sends it
ScrollPayload(ts, id, x, y) ==
    With(BlankEvent, [timestamp |-> ts,
                      type |-> EventType_IncrementalSnapshot,
                      source |-> IncrementalSource_Scroll,
                      id |-> id, x |-> x, y |-> y, frameUrl |-> PageUrl])

\* a message of type RRWEB_EVENT whose payload has no data
DatalessPayload(ts, type) ==
    With(BlankEvent, [timestamp |-> ts, type |-> type, hasData |-> FALSE])

\* an event as storeEvent leaves it in the log of tab tabId
Stored(tabId, messageType, payload, screenshotDataUrl) ==
    With(payload, [tabId |-> tabId, messageType |-> messageType,
                   screenshot |-> screenshotDataUrl])

\* an event as sendTabEvent leaves it
StoredTabEvent(tabId, messageType, ts, url) ==
    With(BlankEvent, [tabId |-> tabId, messageType |-> messageType,
                      timestamp |-> ts, url |-> url, changeUrl |-> url])

---------------------------------------------------------------------------
(* Content script: rrweb's emit callback for scroll events *)

\* JS null of lastScrollY and of lastDirection
NullY == 0 - 1

NullDirection == "null"

\* no timer is pending
NoTimer == [set |-> FALSE]

\* Math.round of a coordinate the browser reports as an integer
MathRound(v) == v

\* the payload sent for a scroll event: the event with roundedScrollData
ScrollMessage(event) ==
    [event EXCEPT !.x = MathRound(event.x), !.y = MathRound(event.y)]

SampleEntry(event) ==
    [kind |-> "sample", at |-> now, ts |-> event.timestamp, y |-> event.y,
     id |-> event.id]

SentEntry(event) ==
    [kind |-> "sent", at |-> now, ts |-> event.timestamp, y |-> event.y,
     id |-> event.id]

\* currentDirection of the emit callback
CurrentDirection(currentScrollY) ==
    IF lastScrollY # NullY
    THEN IF currentScrollY > lastScrollY THEN "down" ELSE "up"
    ELSE NullDirection

\* an emit callback that would leave a pending timer as it is
emitScrollKeepingTimer(tabId, event) ==
    LET currentScrollY == event.y
        currentDirection == CurrentDirection(currentScrollY)
    IN  IF /\ lastDirection # NullDirection
           /\ currentDirection # NullDirection
           /\ currentDirection # lastDirection
        THEN /\ scrollTimeout' = NoTimer
             /\ onContentMessage(tabId, "RRWEB_EVENT", ScrollMessage(event),
                                 TRUE, PageUrl)
             /\ lastDirection' = currentDirection
             /\ lastScrollY' = currentScrollY
             /\ scrollLog' = scrollLog \o <<SampleEntry(event), SentEntry(event)>>
        ELSE /\ lastDirection' = currentDirection
             /\ lastScrollY' = currentScrollY
             /\ scrollTimeout' = IF scrollTimeout.set THEN scrollTimeout
                                 ELSE [set |-> TRUE, due |-> now + DEBOUNCE_MS,
                                       event |-> event]
             /\ scrollLog' = Append(scrollLog, SampleEntry(event))
             /\ UNCHANGED <<sessionLogs, tabInfo, recentNewTabIntents,
                            captures, evals>>

\* the emit callback of rrweb.record for a scroll event
emitScroll(tabId, event) ==
    LET currentScrollY == event.y
        currentDirection == CurrentDirection(currentScrollY)
    IN  IF /\ lastDirection # NullDirection
           /\ currentDirection # NullDirection
           /\ currentDirection # lastDirection
        THEN \* the direction changed: the pending timer is cleared and
             \* this event is sent at once
             /\ scrollTimeout' = NoTimer
             /\ onContentMessage(tabId, "RRWEB_EVENT", ScrollMessage(event),
                                 TRUE, PageUrl)
             /\ lastDirection' = currentDirection
             /\ lastScrollY' = currentScrollY
             /\ scrollLog' = scrollLog \o <<SampleEntry(event), SentEntry(event)>>
        ELSE /\ lastDirection' = currentDirection
             /\ lastScrollY' = currentScrollY
             /\ scrollTimeout' = [set |-> TRUE, due |-> now + DEBOUNCE_MS,
                                  event |-> event]
             /\ scrollLog' = Append(scrollLog, SampleEntry(event))
             /\ UNCHANGED <<sessionLogs, tabInfo, recentNewTabIntents,
                            captures, evals>>

\* rrweb reports that the node id of the page of tab tabId scrolled to y
ScrollSampleOf(tabId, id, y) ==
    /\ Len(scrollLog) + 2 <= MaxScrollLog
    /\ emitScroll(tabId, ScrollPayload(now, id, 0, y))
    /\ UNCHANGED <<now, activatedTabs, isRecordingEnabled, lastWorkflowHash,
                   serverLog, lastInputRecord, domInputs, domKeys, tabEvents,
                   restVars>>

\* rrweb reports that the page of tab tabId scrolled to y
ScrollSample(tabId, y) == ScrollSampleOf(tabId, 1, y)

\* the callback of the debounce timer runs when the delay has passed
ScrollTimerFires(tabId) ==
    /\ scrollTimeout.set
    /\ now >= scrollTimeout.due
    /\ Len(scrollLog) < MaxScrollLog
    /\ onContentMessage(tabId, "RRWEB_EVENT", ScrollMessage(scrollTimeout.event),
                        TRUE, PageUrl)
    /\ scrollLog' = Append(scrollLog, SentEntry(scrollTimeout.event))
    /\ scrollTimeout' = NoTimer
    /\ lastDirection' = NullDirection
    /\ UNCHANGED <<now, activatedTabs, isRecordingEnabled, lastWorkflowHash,
                   serverLog, lastInputRecord, domInputs, domKeys, lastScrollY,
                   tabEvents, restVars>>

\* the nodes that scroll: the page and an element of it
ScrollTargets == {1, 2}

\* time passes on the page; a timer that is due runs before it passes
ScrollTick ==
    /\ now + ScrollTickMs <= MaxScrollTime
    /\ scrollTimeout.set => now + ScrollTickMs <= scrollTimeout.due
    /\ now' = now + ScrollTickMs
    /\ UNCHANGED <<bgVars, csVars>>

---------------------------------------------------------------------------
(* Background: the sidepanel's GET_RECORDING_DATA *)

\* a handler whose conversion would consume the stored events it converted
GetRecordingDataConsuming ==
    /\ Len(evals) < MaxEvals
    /\ BroadcastCall(sessionLogs, activatedTabs, tabInfo)
    /\ sessionLogs' = [t \in Tabs |-> <<>>]
    /\ UNCHANGED <<now, tabInfo, activatedTabs,
                   recentNewTabIntents, isRecordingEnabled, lastWorkflowHash,
                   captures, serverLog, csVars>>

GetRecordingData ==
    /\ Len(evals) < MaxEvals
    /\ BroadcastCall(sessionLogs, activatedTabs, tabInfo)
    /\ UNCHANGED <<now, sessionLogs, tabInfo, activatedTabs,
                   recentNewTabIntents, isRecordingEnabled, lastWorkflowHash,
                   captures, serverLog, csVars>>

---------------------------------------------------------------------------
(* Content script: the recorder and the recording status *)

\* startRecorder: unless rrweb's stop function is held already, rrweb is
\* started and the listeners are attached
startRecorder ==
    /\ IF stopRecording
       THEN UNCHANGED <<stopRecording, isRecordingActive>>
       ELSE /\ isRecordingActive' = TRUE
            /\ stopRecording' = TRUE
    /\ UNCHANGED <<document, currentOverlay, currentFocusOverlay,
                   lastResolution>>

\* the content script's listener, for SET_RECORDING_STATUS
onSetRecordingStatus(shouldBeRecording) ==
    IF shouldBeRecording /\ ~isRecordingActive THEN startRecorder
    ELSE IF ~shouldBeRecording /\ isRecordingActive THEN stopRecorder
    ELSE UNCHANGED <<overlayVars, stopRecording>>

\* the callback of the content script's REQUEST_RECORDING_STATUS
onInitialStatus(enabled) ==
    IF enabled THEN startRecorder ELSE stopRecorder

\* the oldest status on its way reaches the content script
DeliverStatus ==
    /\ statusMessages # <<>>
    /\ Head(statusMessages).payload # "query"
    /\ LET message == Head(statusMessages)
       IN  /\ lastStatus' = message.payload
           /\ IF message.type = "SET_RECORDING_STATUS"
              THEN onSetRecordingStatus(message.payload = "enabled")
              ELSE onInitialStatus(message.payload = "enabled")
    /\ statusMessages' = Tail(statusMessages)
    /\ UNCHANGED <<now, bgVars, lastInputRecord, domInputs, domKeys, scrollVars,
                   tabEvents, netVars, engineVars, domClicks>>

\* the page of tab tabId is loaded: a new content script starts with the
\* values of its declarations and requests the status, which the background
\* answers with isRecordingEnabled
PageLoad(tabId) ==
    /\ Len(statusMessages) < MaxStatusMessages
    /\ isRecordingActive' = TRUE
    /\ stopRecording' = FALSE
    /\ lastStatus' = "none"
    /\ currentOverlay' = NoOverlay
    /\ currentFocusOverlay' = NoOverlay
    /\ lastInputRecord' = [lastInputRecord EXCEPT ![tabId] = <<>>]
    /\ scrollTimeout' = NoTimer
    /\ lastScrollY' = NullY
    /\ lastDirection' = NullDirection
    /\ statusMessages' = Append(statusMessages,
                                [type |-> "REQUEST_RECORDING_STATUS",
                                 payload |-> StatusOf(isRecordingEnabled)])
    /\ UNCHANGED <<now, bgVars, domInputs, domKeys, scrollLog, tabEvents,
                   netVars, engineVars, document, lastResolution, domClicks>>

---------------------------------------------------------------------------
(* Specifications *)

\* a content script loaded into a page while recording is enabled, its
\* recorder started by the initial status
InitContentPage(doc) ==
    /\ document = doc
    /\ isRecordingActive = TRUE
    /\ stopRecording = TRUE
    /\ lastStatus = "enabled"
    /\ domClicks = <<>>
    /\ statusMessages = <<>>
    /\ currentOverlay = NoOverlay
    /\ currentFocusOverlay = NoOverlay
    /\ lastResolution = NoResolution

InitPageObserved ==
    /\ domKeys = <<>>
    /\ scrollTimeout = NoTimer
    /\ lastScrollY = NullY
    /\ lastDirection = NullDirection
    /\ scrollLog = <<>>
    /\ tabEvents = <<>>
    /\ posts = <<>>
    /\ received = <<>>
    /\ failed = <<>>

InitObserved ==
    /\ InitContentPage(<<>>)
    /\ InitRun(<<>>, {})
    /\ InitPageObserved

Init ==
    /\ now = 0
    /\ sessionLogs = [t \in Tabs |-> <<>>]
    /\ tabInfo = [t \in Tabs |-> ""]
    /\ activatedTabs = {}
    /\ recentNewTabIntents = <<>>
    /\ isRecordingEnabled = TRUE
    /\ lastWorkflowHash = NoHash
    /\ captures = <<>>
    /\ evals = <<>>
    /\ serverLog = <<>>
    /\ lastInputRecord = [t \in Tabs |-> <<>>]
    /\ domInputs = <<>>
    /\ InitObserved

\* the background under tab events, clicks and rrweb Meta events
Next ==
    \/ Tick
    \/ \E t \in Tabs : TabActivated(t)
    \/ \E t \in Tabs : TabUpdated(t, PageUrl, PageUrl)
    \/ \E t \in Tabs :
          ContentMessage(t, "CUSTOM_CLICK_EVENT",
                         ClickPayload(now, PageUrl, "A", "BUTTON"), TRUE, PageUrl)
    \/ \E t \in Tabs, p \in MetaPayloads(now) :
          ContentMessage(t, "RRWEB_EVENT", p, TRUE, PageUrl)
    \/ \E i \in 1..MaxCaptures, d \in {NoShot, "jpeg1"} : CaptureDone(i, d)
    \/ \E i \in 1..MaxEvals : BroadcastResume(i)

Spec == Init /\ [][Next]_vars

\* the content script of one tab: its input handler feeding the background
ContentTab == CHOOSE t \in Tabs : \A u \in Tabs : t <= u

NextContent ==
    \/ Tick
    \/ \E el \in Elements, v \in {"", "x", "xy"}, tr \in BOOLEAN :
          DomInput(ContentTab, el, v, tr)
    \/ \E i \in 1..MaxCaptures, d \in {NoShot, "jpeg1"} : CaptureDone(i, d)
    \/ \E i \in 1..MaxEvals : BroadcastResume(i)

SpecContent == Init /\ [][NextContent]_vars

\* the keys pressed on the page: a listed key, a letter, a function key and
\* a punctuation character
PressedKeys == {"Enter", "a", "F5", "-"}

\* the content script of one tab: its select and keydown handlers feeding
\* the background
NextKeys ==
    \/ TabActivated(ContentTab)
    \/ \E el \in {SelectElement} \cup Elements :
          DomSelectChange(ContentTab, el, "one")
    \/ \E k \in PressedKeys, c, m \in BOOLEAN :
          DomKeydown(ContentTab, SelectElement, k, c, m)
    \/ \E i \in 1..MaxCaptures, d \in {NoShot, "jpeg1"} : CaptureDone(i, d)
    \/ \E i \in 1..MaxEvals : BroadcastResume(i)

SpecKeys == Init /\ [][NextKeys]_vars

\* the content script of one tab: its scroll debounce feeding the background
NextScroll ==
    \/ ScrollTick
    \/ \E y \in 0..MaxScrollY : ScrollSample(ContentTab, y)
    \/ ScrollTimerFires(ContentTab)
    \/ \E i \in 1..MaxEvals : BroadcastResume(i)

SpecScroll == Init /\ [][NextScroll]_vars

\* the scroll debounce of the content script of one tab, the page and a
\* scrollable element of it being scrolled
NextScrollTargets ==
    \/ ScrollTick
    \/ \E id \in ScrollTargets, y \in 0..MaxScrollY :
          ScrollSampleOf(ContentTab, id, y)
    \/ ScrollTimerFires(ContentTab)
    \/ \E i \in 1..MaxEvals : BroadcastResume(i)

SpecScrollTargets == Init /\ [][NextScrollTargets]_vars

\* the background under the tab events of chrome, the open intents of the
\* pages and the recording switch
NextTabs ==
    \/ Tick
    \/ \E t \in Tabs : ObservedTabActivated(t)
    \/ \E t \in Tabs, o \in {0, ContentTab} : ObservedTabCreated(t, o, PageUrl)
    \/ \E t \in Tabs : ObservedTabUpdated(t, PageUrl, PageUrl)
    \/ \E t \in Tabs : ObservedTabRemoved(t)
    \/ ContentMessage(ContentTab, "PREPARE_NEW_TAB", BlankEvent, TRUE, PageUrl)
    \/ StopRecording

SpecTabs == Init /\ [][NextTabs]_vars

\* the background under input messages of one element, as the frames of a
\* tab send them, with captures that succeed or fail
NextShots ==
    \/ \E p \in InputPayloads(now) :
          ContentMessage(ContentTab, "CUSTOM_INPUT_EVENT", p, TRUE, PageUrl)
    \/ \E i \in 1..MaxCaptures, d \in {NoShot, "jpeg1"} : CaptureDone(i, d)
    \/ \E i \in 1..MaxEvals : BroadcastResume(i)

SpecShots == Init /\ [][NextShots]_vars

\* the background under clicks, with the delivery of its updates to the
\* server followed
NextNet ==
    \/ ContentMessage(ContentTab, "CUSTOM_CLICK_EVENT",
                      ClickPayload(now, PageUrl, "A", "BUTTON"), TRUE, PageUrl)
    \/ \E i \in 1..MaxCaptures, d \in {NoShot, "jpeg1"} : CaptureDone(i, d)
    \/ \E i \in 1..MaxEvals : BroadcastResumePosting(i)
    \/ \E i \in 1..MaxPosts, ok \in BOOLEAN : FetchDone(i, ok)

SpecNet == Init /\ [][NextNet]_vars

\* the clicks on the elements of the frames of one tab feeding the background
NextClicks ==
    \/ \E w \in Windows, el \in Elements, v \in {"x", "xy"} :
          DomClick(ContentTab, w, el, v)
    \/ \E i \in 1..MaxCaptures, d \in {NoShot, "jpeg1"} : CaptureDone(i, d)
    \/ \E i \in 1..MaxEvals : BroadcastResume(i)

SpecClicks == Init /\ [][NextClicks]_vars

\* the recording switch of the background and the recorder of the content
\* script of one tab, whose page can be loaded again
NextRecorder ==
    \/ Tick
    \/ StopRecording
    \/ StartRecording
    \/ TabsQueried
    \/ DeliverStatus
    \/ PageLoad(ContentTab)

SpecRecorder == Init /\ [][NextRecorder]_vars

\* the background under the recording switch of the sidepanel, with the
\* clicks of one tab
NextSession ==
    \/ Tick
    \/ StartRecording
    \/ StopRecording
    \/ TabsQueried
    \/ DeliverStatus
    \/ ContentMessage(ContentTab, "CUSTOM_CLICK_EVENT",
                      ClickPayload(now, PageUrl, "A", "BUTTON"), TRUE, PageUrl)
    \/ \E i \in 1..MaxCaptures : CaptureDone(i, "jpeg1")
    \/ \E i \in 1..MaxEvals : BroadcastResume(i)

SpecSession == Init /\ [][NextSession]_vars

\* a page with its content script, the background idle
InitOverlay ==
    /\ now = 0
    /\ sessionLogs = [t \in Tabs |-> <<>>]
    /\ tabInfo = [t \in Tabs |-> ""]
    /\ activatedTabs = {}
    /\ recentNewTabIntents = <<>>
    /\ isRecordingEnabled = TRUE
    /\ lastWorkflowHash = NoHash
    /\ captures = <<>>
    /\ evals = <<>>
    /\ serverLog = <<>>
    /\ lastInputRecord = [t \in Tabs |-> <<>>]
    /\ domInputs = <<>>
    /\ InitPageObserved
    /\ InitRun(<<>>, {})
    /\ \E doc \in Documents : InitContentPage(doc)

\* the mouse and the focus moving over the elements of the page
NextOverlay ==
    \/ \E targetElement \in 1..Len(document), point \in Points :
          MouseOver(targetElement, point[1], point[2])
    \/ MouseOut
    \/ \E targetElement \in 1..Len(document) : Focus(targetElement)
    \/ Blur
    \/ StopRecorder

SpecOverlay == InitOverlay /\ [][NextOverlay]_vars

\* a run about to start, the extension idle
InitEngine ==
    /\ now = 0
    /\ sessionLogs = [t \in Tabs |-> <<>>]
    /\ tabInfo = [t \in Tabs |-> ""]
    /\ activatedTabs = {}
    /\ recentNewTabIntents = <<>>
    /\ isRecordingEnabled = TRUE
    /\ lastWorkflowHash = NoHash
    /\ captures = <<>>
    /\ evals = <<>>
    /\ serverLog = <<>>
    /\ lastInputRecord = [t \in Tabs |-> <<>>]
    /\ domInputs = <<>>
    /\ InitPageObserved
    /\ InitContentPage(<<>>)
    /\ \E steps \in Workflows, inputs \in SUBSET VariableNames :
          InitRun(steps, inputs)

SpecEngine == InitEngine /\ [][NextEngine]_vars

(* The conversion as a function of the log: the log of one tab is drawn    *)
(* from the events the listeners can have stored, in the order of their    *)
(* timestamps, and the sidepanel asks for the recording.                   *)

Times == {k * TickMs : k \in 0..(MaxTime \div TickMs)}

LogsOver(alphabet) ==
    {log \in UNION {[1..n -> alphabet] : n \in 0..MaxEvents} :
        \A i \in 1..(Len(log) - 1) : log[i].timestamp <= log[i + 1].timestamp}

InitLog(tabId, log) ==
    /\ now = MaxTime
    /\ sessionLogs = [t \in Tabs |-> IF t = tabId THEN log ELSE <<>>]
    /\ tabInfo = [t \in Tabs |-> IF t = tabId /\ log # <<>> THEN PageUrl ELSE ""]
    /\ recentNewTabIntents = <<>>
    /\ isRecordingEnabled = TRUE
    /\ lastWorkflowHash = NoHash
    /\ captures = <<>>
    /\ evals = <<>>
    /\ serverLog = <<>>
    /\ lastInputRecord = [t \in Tabs |-> <<>>]
    /\ domInputs = <<>>
    /\ InitObserved

NextConvert ==
    \/ GetRecordingData
    \/ \E i \in 1..MaxEvals : BroadcastResume(i)

\* logs of clicks and input events
InputAlphabet(tabId) ==
    UNION {{Stored(tabId, "CUSTOM_CLICK_EVENT", p, "jpeg1") : p \in ClickPayloads(ts)}
           \cup {Stored(tabId, "CUSTOM_INPUT_EVENT", p, d) :
                    p \in InputPayloads(ts), d \in {NoShot, "jpeg1"}}
           \cup {Stored(tabId, "CUSTOM_INPUT_EVENT", p, "jpeg1") :
                    p \in OtherInputPayloads(ts)}
           : ts \in Times}

InitConvert ==
    \E tabId \in Tabs : \E log \in LogsOver(InputAlphabet(tabId)) :
        /\ InitLog(tabId, log)
        /\ activatedTabs \in {{}, {tabId}}

SpecConvert == InitConvert /\ [][NextConvert]_vars

\* logs of tab updates, clicks and rrweb Meta events of an activated tab
NavAlphabet(tabId) ==
    UNION {{StoredTabEvent(tabId, "CUSTOM_TAB_UPDATED", ts, u) : u \in {PageUrl, NextUrl}}
           \cup {Stored(tabId, "CUSTOM_CLICK_EVENT",
                        ClickPayload(ts, PageUrl, "A", "BUTTON"), "jpeg1")}
           \cup {Stored(tabId, "RRWEB_EVENT", p, NoShot) : p \in MetaPayloads(ts)}
           : ts \in Times}

InitNav ==
    \E tabId \in Tabs : \E log \in LogsOver(NavAlphabet(tabId)) :
        /\ InitLog(tabId, log)
        /\ activatedTabs \in {a \in SUBSET Tabs : tabId \in a}

SpecNav == InitNav /\ [][NextConvert]_vars

InitLogs(logs) ==
    /\ now = MaxTime
    /\ sessionLogs = logs
    /\ tabInfo = [t \in Tabs |-> IF logs[t] # <<>> THEN PageUrl ELSE ""]
    /\ activatedTabs = Tabs
    /\ recentNewTabIntents = <<>>
    /\ isRecordingEnabled = TRUE
    /\ lastWorkflowHash = NoHash
    /\ captures = <<>>
    /\ evals = <<>>
    /\ serverLog = <<>>
    /\ lastInputRecord = [t \in Tabs |-> <<>>]
    /\ domInputs = <<>>
    /\ InitObserved

\* logs of well-formed and malformed events, at the first and the last instant
MalformedAlphabet(tabId) ==
    UNION {{Stored(tabId, "CUSTOM_CLICK_EVENT", p, "jpeg1") : p \in ClickPayloads(ts)}
           \cup {Stored(tabId, "CUSTOM_INPUT_EVENT", InputPayload(ts, "", "x"), "jpeg1")}
           \cup {Stored(tabId, "CUSTOM_KEY_EVENT", KeyPayload(ts, u, k), "jpeg1") :
                    u \in {PageUrl, ""}, k \in {"Enter", ""}}
           \cup {Stored(tabId, "RRWEB_EVENT", DatalessPayload(ts, ty), NoShot) :
                    ty \in {EventType_IncrementalSnapshot, EventType_Meta}}
           : ts \in {0, MaxTime}}

\* the logs of tabs tabId..NumTabs, of at most budget events together
RECURSIVE MalformedLogs(_, _)
MalformedLogs(tabId, budget) ==
    IF tabId > NumTabs THEN {<<>>}
    ELSE UNION {{(tabId :> log) @@ rest :
                    rest \in MalformedLogs(tabId + 1, budget - Len(log))} :
                log \in {l \in LogsOver(MalformedAlphabet(tabId)) :
                            Len(l) <= budget}}

InitMalformed == \E logs \in MalformedLogs(1, MaxEvents) : InitLogs(logs)

SpecMalformed == InitMalformed /\ [][NextConvert]_vars

FrameUrl == "https://site/frame"

\* inputData of handleInput running in an iframe of the page: url and
\* frameUrl are both the location of the frame's document
FrameInputPayload(ts, xpath, value) ==
    With(BlankEvent, [timestamp |-> ts, url |-> FrameUrl, frameUrl |-> FrameUrl,
                      xpath |-> xpath, cssSelector |-> "css",
                      elementTag |-> "INPUT", value |-> value])

\* logs of clicks in the top document and of input events of the element
\* with one address in the top document and in an iframe
FrameAlphabet(tabId) ==
    UNION {{Stored(tabId, "CUSTOM_CLICK_EVENT",
                   ClickPayload(ts, PageUrl, "A", "BUTTON"), "jpeg1")}
           \cup {Stored(tabId, "CUSTOM_INPUT_EVENT", InputPayload(ts, "B", v),
                        "jpeg1") : v \in {"", "x"}}
           \cup {Stored(tabId, "CUSTOM_INPUT_EVENT",
                        FrameInputPayload(ts, "B", v), "jpeg1") : v \in {"", "x"}}
           : ts \in Times}

\* the logs of tabs tabId..NumTabs, of at most budget events together
RECURSIVE FrameLogs(_, _)
FrameLogs(tabId, budget) ==
    IF tabId > NumTabs THEN {<<>>}
    ELSE UNION {{(tabId :> log) @@ rest :
                    rest \in FrameLogs(tabId + 1, budget - Len(log))} :
                log \in {l \in LogsOver(FrameAlphabet(tabId)) :
                            Len(l) <= budget}}

InitFrames == \E logs \in FrameLogs(1, MaxEvents) : InitLogs(logs)

SpecFrames == InitFrames /\ [][NextConvert]_vars

MaxScrollEvents == 4

\* the scroll messages of two scroll targets, emptied inputs and url
\* changes of a tab
ScrollStepAlphabet(tabId) ==
    UNION {{Stored(tabId, "RRWEB_EVENT", ScrollPayload(ts, id, 0, y), NoShot) :
                id \in 1..2, y \in 1..2}
           \cup {Stored(tabId, "CUSTOM_INPUT_EVENT", InputPayload(ts, "B", ""),
                        "jpeg1")}
           \cup {StoredTabEvent(tabId, "CUSTOM_TAB_UPDATED", ts, PageUrl)}
           : ts \in Times}

ScrollStepLogs(tabId) ==
    {log \in UNION {[1..n -> ScrollStepAlphabet(tabId)] : n \in 0..MaxScrollEvents} :
        \A i \in 1..(Len(log) - 1) : log[i].timestamp <= log[i + 1].timestamp}

InitScrollSteps ==
    \E log \in ScrollStepLogs(ContentTab) :
        /\ InitLog(ContentTab, log)
        /\ activatedTabs = {ContentTab}

SpecScrollSteps == InitScrollSteps /\ [][NextConvert]_vars

\* logs of well-formed events of every kind, of an activated tab
AnyAlphabet(tabId) ==
    UNION {{StoredTabEvent(tabId, "CUSTOM_TAB_UPDATED", ts, PageUrl)}
           \cup {Stored(tabId, "CUSTOM_CLICK_EVENT",
                        ClickPayload(ts, PageUrl, "A", "BUTTON"), "jpeg1")}
           \cup {Stored(tabId, "CUSTOM_INPUT_EVENT", InputPayload(ts, "B", v), "jpeg1") :
                    v \in {"", "x"}}
           \cup {Stored(tabId, "CUSTOM_KEY_EVENT", KeyPayload(ts, PageUrl, "Enter"),
                        "jpeg1")}
           \cup {Stored(tabId, "RRWEB_EVENT", ScrollPayload(ts, 1, 0, 1), NoShot)}
           \cup {Stored(tabId, "RRWEB_EVENT", MetaPayload(ts, PageUrl, TRUE), NoShot)}
           : ts \in Times}

InitAny ==
    \E tabId \in Tabs : \E log \in LogsOver(AnyAlphabet(tabId)) :
        /\ InitLog(tabId, log)
        /\ activatedTabs = {tabId}

SpecAny == InitAny /\ [][NextConvert]_vars

---------------------------------------------------------------------------
(* Claims about the conversion of one tab's log *)

Log(t) == sessionLogs[t]

\* the Steps of tab t's log before and after its i-th event is converted
StepsBefore(t, i) == ConvPrefix(Log(t), i - 1, activatedTabs, tabInfo).steps

StepsAfter(t, i) == ConvPrefix(Log(t), i, activatedTabs, tabInfo).steps

StateBefore(t, i) == ConvPrefix(Log(t), i - 1, activatedTabs, tabInfo)

IsPrefixOf(a, b) == Len(a) <= Len(b) /\ SubSeq(b, 1, Len(a)) = a

LastUpdate == serverLog[Len(serverLog)]

HasUpdate == serverLog # <<>> /\ LastUpdate.type = "WORKFLOW_UPDATE"

IsClick(e) == e.messageType = "CUSTOM_CLICK_EVENT"

IsInput(e) == e.messageType = "CUSTOM_INPUT_EVENT"

ClickIsComplete(e) == e.url # "" /\ e.xpath # "" /\ e.elementTag # ""

InputIsComplete(e) == e.url # "" /\ e.xpath # "" /\ e.elementTag # ""

SameTarget(a, b) ==
    /\ a.url = b.url
    /\ a.frameUrl = b.frameUrl
    /\ a.xpath = b.xpath
    /\ a.cssSelector = b.cssSelector
    /\ a.elementTag = b.elementTag

\* the input events i..j of tab t's log are a run: complete input events with
\* the url, frame url, address and tag of the first, which is not preceded by
\* such an event
IsInputRun(t, i, j) ==
    /\ 1 <= i /\ i <= j /\ j <= Len(Log(t))
    /\ \A k \in i..j : /\ IsInput(Log(t)[k])
                       /\ InputIsComplete(Log(t)[k])
                       /\ SameTarget(Log(t)[k], Log(t)[i])
    /\ i > 1 => ~(IsInput(Log(t)[i - 1]) /\ SameTarget(Log(t)[i - 1], Log(t)[i]))

\* step is an input Step for the target of input event e
StepIsInputOn(step, e) ==
    /\ step.type = "input"
    /\ step.tabId = e.tabId
    /\ step.url = e.url
    /\ step.frameUrl = e.frameUrl
    /\ step.xpath = e.xpath
    /\ step.cssSelector = e.cssSelector
    /\ step.elementTag = e.elementTag

\* the run i..j stands in the Steps as exactly one input Step, the last one,
\* with the value, timestamp and screenshot of the run's last event: it is a
\* new Step unless the Steps before the run ended with an input Step of the
\* same target (no Step was made since the previous run), and the Steps
\* before it are as they were
RunIsOneStep(t, i, j) ==
    LET before == StepsBefore(t, i)
        after == StepsAfter(t, j)
        last == after[Len(after)]
        e == Log(t)[j]
        continues == before # <<>> /\ StepIsInputOn(before[Len(before)], e)
    IN  /\ Len(after) = IF continues THEN Len(before) ELSE Len(before) + 1
        /\ SubSeq(after, 1, Len(after) - 1) = SubSeq(before, 1, Len(after) - 1)
        /\ StepIsInputOn(last, e)
        /\ last.value = e.value
        /\ last.timestamp = e.timestamp
        /\ last.screenshot = e.screenshot

\* C2 as claimed: every run of consecutive input events of one tab that share
\* url, frame, address and tag yields exactly one input Step, with the value,
\* timestamp and screenshot of the run's last event.
C2_Original ==
    \A t \in Tabs : \A i, j \in 1..Len(Log(t)) :
        IsInputRun(t, i, j) => RunIsOneStep(t, i, j)

\* no event of the run i..j is an empty value repeating, within 5 s, the empty
\* value last recorded for its tab and address
NoEmptyRepeatIn(t, i, j) ==
    \A k \in i..j : ~IsEmptyRepeat(StateBefore(t, k), Log(t)[k])

\* C2 as amended: a run of consecutive complete input events of one tab that
\* share url, frame url, xpath, css selector and tag, none of which is an
\* empty value repeating within 5 s the empty value last recorded for that tab
\* and xpath, yields exactly one input Step, with the value, timestamp and
\* screenshot of the run's last event.
C2_RunCoalesces ==
    \A t \in Tabs : \A i, j \in 1..Len(Log(t)) :
        IsInputRun(t, i, j) /\ NoEmptyRepeatIn(t, i, j) => RunIsOneStep(t, i, j)

\* click(A), then input "x" and, more than 1.5 s later, input "xy" on B were
\* emitted as [click(A), input(B, "xy")]
C2_Witness ==
    \E t \in Tabs :
        /\ Len(Log(t)) = 3
        /\ IsClick(Log(t)[1]) /\ ClickIsComplete(Log(t)[1])
        /\ IsInput(Log(t)[2]) /\ Log(t)[2].value = "x"
        /\ IsInput(Log(t)[3]) /\ Log(t)[3].value = "xy"
        /\ Log(t)[3].timestamp - Log(t)[2].timestamp > DEBOUNCE_MS_INPUT
        /\ Log(t)[3].screenshot # Log(t)[2].screenshot
        /\ HasUpdate
        /\ LastUpdate.steps = <<ClickStep(Log(t)[1]), InputStep(Log(t)[3])>>

\* the input event before the i-th of tab t's log on the same address
PreviousInputOn(t, i) ==
    LET earlier == {k \in 1..(i - 1) : /\ IsInput(Log(t)[k])
                                       /\ InputIsComplete(Log(t)[k])
                                       /\ Log(t)[k].xpath = Log(t)[i].xpath}
    IN  IF earlier = {} THEN 0
        ELSE CHOOSE k \in earlier : \A m \in earlier : m <= k

\* C9 as claimed: an input event with an empty value that arrives less than
\* 5 s after the previous input of the same tab and address, empty too,
\* appends no Step and changes no field of any Step.
C9_Original ==
    \A t \in Tabs : \A i \in 1..Len(Log(t)) :
        LET e == Log(t)[i]
            j == PreviousInputOn(t, i)
        IN  /\ IsInput(e) /\ InputIsComplete(e) /\ e.value = ""
            /\ j # 0
            /\ Log(t)[j].value = ""
            /\ e.timestamp - Log(t)[j].timestamp < EMPTY_COLLAPSE_MS
            => StepsAfter(t, i) = StepsBefore(t, i)

WithoutTimestamp(step) == [step EXCEPT !.timestamp = 0]

\* C9 as amended: an input event with an empty value that arrives less than
\* 5 s after the input last recorded for the same tab and xpath (the last one
\* that was not collapsed itself), empty too, appends no Step and changes no
\* value, screenshot or other field of any Step but one timestamp: the Step
\* of that recorded input takes the event's timestamp.
C9_EmptyRepeatOnlyMovesTimestamp ==
    \A t \in Tabs : \A i \in 1..Len(Log(t)) :
        LET e == Log(t)[i]
            before == StepsBefore(t, i)
            after == StepsAfter(t, i)
        IN  IsInput(e) /\ InputIsComplete(e) /\ IsEmptyRepeat(StateBefore(t, i), e)
            => /\ Len(after) = Len(before)
               /\ \A k \in 1..Len(before) :
                     /\ WithoutTimestamp(after[k]) = WithoutTimestamp(before[k])
                     /\ after[k].timestamp # before[k].timestamp
                        => /\ before[k].type = "input"
                           /\ before[k].xpath = e.xpath
                           /\ before[k].value = ""
                           /\ after[k].timestamp = e.timestamp
               /\ \E k \in 1..Len(before) :
                     /\ before[k].type = "input" /\ before[k].xpath = e.xpath
                     /\ after[k].timestamp = e.timestamp

\* an empty input, then a second one 2.5 s later with another screenshot:
\* the emitted Step has the second's timestamp and the first's screenshot
C9_Witness ==
    \E t \in Tabs :
        /\ Len(Log(t)) = 2
        /\ IsInput(Log(t)[1]) /\ Log(t)[1].value = ""
        /\ IsInput(Log(t)[2]) /\ Log(t)[2].value = ""
        /\ Log(t)[2].timestamp > Log(t)[1].timestamp
        /\ Log(t)[2].timestamp - Log(t)[1].timestamp < EMPTY_COLLAPSE_MS
        /\ Log(t)[2].screenshot # Log(t)[1].screenshot
        /\ HasUpdate
        /\ Len(LastUpdate.steps) = 1
        /\ LastUpdate.steps[1].timestamp = Log(t)[2].timestamp
        /\ LastUpdate.steps[1].screenshot = Log(t)[1].screenshot

---------------------------------------------------------------------------
(* Claims about navigation Steps *)

IsTabEvent(e) ==
    e.messageType \in {"CUSTOM_TAB_CREATED", "CUSTOM_TAB_UPDATED",
                       "CUSTOM_TAB_ACTIVATED"}

\* the index of the last navigation Step of tab t in steps, 0 if there is none
LastNavigationOf(steps, t) ==
    LET navs == {k \in 1..Len(steps) : /\ steps[k].type = "navigation"
                                       /\ steps[k].tabId = t}
    IN  IF navs = {} THEN 0 ELSE CHOOSE k \in navs : \A m \in navs : m <= k

\* C3: a tab event carrying a url, of an activated tab, updates the most
\* recent navigation Step of its tab in place (url and timestamp) if there is
\* one and no other Step of that tab was recorded after it; otherwise it
\* appends a new navigation Step.
C3_Original ==
    \A t \in Tabs : \A i \in 1..Len(Log(t)) :
        LET e == Log(t)[i]
            before == StepsBefore(t, i)
            after == StepsAfter(t, i)
            n == LastNavigationOf(before, t)
        IN  IsTabEvent(e) /\ e.url # "" /\ t \in activatedTabs =>
              IF n # 0 /\ \A k \in (n + 1)..Len(before) : before[k].tabId # t
              THEN after = [before EXCEPT ![n].url = e.url,
                                          ![n].timestamp = e.timestamp]
              ELSE after = Append(before, NavigationStep(e.timestamp, t, e.url))

---------------------------------------------------------------------------
(* Claims about the emitted workflows *)

Updates == {k \in 1..Len(serverLog) : serverLog[k].type = "WORKFLOW_UPDATE"}

InteractionStepTypes == {"click", "input", "key_press", "scroll"}

\* C1: no emitted workflow has a click, input, key or scroll Step of a tab
\* that was never activated (and whose opener has no open intent).
C1_Original ==
    \A k \in Updates : \A m \in 1..Len(serverLog[k].steps) :
        LET step == serverLog[k].steps[m]
        IN  step.type \in InteractionStepTypes
            => \/ step.tabId \in activatedTabs
               \/ recentNewTabIntents # <<>>

\* a stored rrweb Meta event of an about:blank document in a nested frame
IsNestedBlankMeta(e) ==
    /\ e.messageType = "RRWEB_EVENT"
    /\ e.type = EventType_Meta
    /\ e.href = "about:blank"
    /\ ~e.isTopFrame

\* C4: no emitted workflow has a navigation Step to about:blank that comes
\* from a nested frame.
C4_Original ==
    \A k \in Updates : \A m \in 1..Len(serverLog[k].steps) :
        LET step == serverLog[k].steps[m]
        IN  ~(/\ step.type = "navigation"
              /\ step.url = "about:blank"
              /\ \E i \in 1..Len(Log(step.tabId)) :
                    /\ IsNestedBlankMeta(Log(step.tabId)[i])
                    /\ Log(step.tabId)[i].timestamp = step.timestamp)

\* an evaluation of broadcastWorkflowDataUpdate resumes in this step
Resumes(i) == i \in 1..Len(evals) /\ evals' = RemoveAt(evals, i)

IsStale(i) ==
    \/ evals[i].threw
    \/ /\ lastWorkflowHash # NoHash
       /\ calculateSHA256(JSONstringify(evals[i].steps)) = lastWorkflowHash

\* C5: two consecutive WORKFLOW_UPDATEs never carry the same Steps and the
\* hash kept is that of the last one emitted; an evaluation that resumes emits
\* exactly when its hash differs from the hash kept, whatever the order in
\* which the evaluations resume, and a suppressed one leaves the stored events
\* and the emitted updates as they are; a stored event stays stored and its
\* evaluation is of the logs that hold it.
C5_EmitsOnlyOnChange ==
    /\ [](/\ \A k \in 1..(Len(serverLog) - 1) :
                serverLog[k].steps # serverLog[k + 1].steps
          /\ lastWorkflowHash =
                IF serverLog = <<>> THEN NoHash
                ELSE calculateSHA256(JSONstringify(LastUpdate.steps)))
    /\ [][/\ \A i \in 1..Len(evals) :
                Resumes(i) =>
                   /\ sessionLogs' = sessionLogs
                   /\ IF IsStale(i)
                      THEN serverLog' = serverLog
                      ELSE /\ serverLog' # serverLog
                           /\ serverLog'[Len(serverLog')].steps = evals[i].steps
          /\ sessionLogs' # sessionLogs =>
                /\ \A t \in Tabs : IsPrefixOf(sessionLogs[t], sessionLogs'[t])
                /\ Len(evals') = Len(evals) + 1
                /\ evals'[Len(evals')].steps = allSteps'
                /\ serverLog' = serverLog]_vars

\* two events were stored and both evaluations have resumed, the second one
\* suppressed: one update was emitted, of the Steps of the logs as they are
C5_Witness ==
    /\ TotalEvents(sessionLogs) >= 2
    /\ evals = <<>>
    /\ captures = <<>>
    /\ Len(serverLog) = 1
    /\ LastUpdate.steps = allSteps
    /\ allSteps # <<>>

IsSortedByTimestamp(steps) ==
    \A m \in 1..(Len(steps) - 1) : steps[m].timestamp <= steps[m + 1].timestamp

InsertAt(seq, p, x) == SubSeq(seq, 1, p - 1) \o <<x>> \o SubSeq(seq, p, Len(seq))

\* C6: the Steps of an emitted workflow are in non-decreasing timestamp
\* order and Steps of equal timestamps are in the order of insertion: when an
\* update has one Step more than the update before it, the new Step stands
\* after every Step of the same timestamp, of its tab or of another.
C6_Original ==
    /\ \A k \in Updates : IsSortedByTimestamp(serverLog[k].steps)
    /\ \A k \in 1..(Len(serverLog) - 1) :
          LET old == serverLog[k].steps
              new == serverLog[k + 1].steps
              added == {p \in 1..Len(new) : new = InsertAt(old, p, new[p])}
          IN  added # {}
              => \E p \in added : \A q \in (p + 1)..Len(new) :
                    new[q].timestamp > new[p].timestamp

---------------------------------------------------------------------------
(* Claims about the input handler of the content script *)

PasswordXPaths == {el.xpath : el \in {e \in Elements : e.type = "password"}}

TypedTexts == {domInputs[k].typed : k \in 1..Len(domInputs)}

\* C7: an input on a password element is recorded with the mask as its
\* value, in the event sent, in the event stored and in the input Step of
\* every workflow, emitted or about to be, also after in-place updates.
C7_PasswordIsMasked ==
    /\ PasswordMask \notin TypedTexts
    /\ \A k \in 1..Len(domInputs) :
          domInputs[k].type = "password" => domInputs[k].value = PasswordMask
    /\ \A t \in Tabs : \A i \in 1..Len(Log(t)) :
          Log(t)[i].xpath \in PasswordXPaths => Log(t)[i].value = PasswordMask
    /\ \A i \in 1..Len(captures) :
          captures[i].payload.xpath \in PasswordXPaths
          => captures[i].payload.value = PasswordMask
    /\ \A m \in 1..Len(allSteps) :
          allSteps[m].xpath \in PasswordXPaths => allSteps[m].value = PasswordMask
    /\ \A i \in 1..Len(evals) : \A m \in 1..Len(evals[i].steps) :
          evals[i].steps[m].xpath \in PasswordXPaths
          => evals[i].steps[m].value = PasswordMask
    /\ \A k \in Updates : \A m \in 1..Len(serverLog[k].steps) :
          serverLog[k].steps[m].xpath \in PasswordXPaths
          => serverLog[k].steps[m].value = PasswordMask

\* "x" and, 2.5 s later, "xy" were typed in the password field: the two
\* events were stored and emitted as one input Step, with the mask
C7_Witness ==
    /\ \E a, b \in 1..Len(domInputs) :
          /\ a < b
          /\ domInputs[a].type = "password" /\ domInputs[a].typed = "x"
          /\ domInputs[b].type = "password" /\ domInputs[b].typed = "xy"
          /\ domInputs[a].sent /\ domInputs[b].sent
    /\ Len(Log(ContentTab)) = 2
    /\ \A i \in 1..2 : Log(ContentTab)[i].xpath \in PasswordXPaths
    /\ HasUpdate
    /\ Len(LastUpdate.steps) = 1
    /\ LastUpdate.steps[1].type = "input"
    /\ LastUpdate.steps[1].value = PasswordMask
    /\ LastUpdate.steps[1].timestamp = Log(ContentTab)[2].timestamp

\* input events a and b of one document are on the same element, with the
\* same value, less than 1.5 s apart
SameValueSoon(a, b) ==
    /\ a < b
    /\ domInputs[a].tabId = domInputs[b].tabId
    /\ domInputs[a].xpath = domInputs[b].xpath
    /\ domInputs[a].value = domInputs[b].value
    /\ domInputs[b].timestamp - domInputs[a].timestamp < DEBOUNCE_MS_INPUT

\* C8 as claimed: of two input events on the same address with the same
\* value, less than 1.5 s apart, at most one is sent to be recorded, whatever
\* input events arrive on that address in between.
C8_Original ==
    \A a, b \in 1..Len(domInputs) :
        SameValueSoon(a, b) => ~(domInputs[a].sent /\ domInputs[b].sent)

\* an input event of another value was recorded on the address between a and b
OtherValueRecordedBetween(a, b) ==
    \E c \in (a + 1)..(b - 1) :
        /\ domInputs[c].tabId = domInputs[a].tabId
        /\ domInputs[c].xpath = domInputs[a].xpath
        /\ domInputs[c].value # domInputs[a].value
        /\ domInputs[c].sent

\* C8 as amended: of two input events of one document on the same xpath with
\* the same value, less than 1.5 s apart, at most one is sent to be recorded,
\* unless an input event of another value on that xpath was recorded between
\* them.
C8_SameValueSentOnce ==
    \A a, b \in 1..Len(domInputs) :
        SameValueSoon(a, b) /\ ~OtherValueRecordedBetween(a, b)
        => ~(domInputs[a].sent /\ domInputs[b].sent)

\* "x" was typed twice in the text field at the same instant, by the user:
\* the first event was sent and stored, the second was not sent
C8_Witness ==
    \E a, b \in 1..Len(domInputs) :
        /\ SameValueSoon(a, b)
        /\ b = a + 1
        /\ domInputs[a].value = "x"
        /\ domInputs[a].isTrusted /\ domInputs[b].isTrusted
        /\ domInputs[a].sent /\ ~domInputs[b].sent
        /\ Len(Log(domInputs[a].tabId)) = 1
        /\ captures = <<>>

---------------------------------------------------------------------------
(* Claims about malformed events *)

IsKey(e) == e.messageType = "CUSTOM_KEY_EVENT"

KeyIsComplete(e) == e.url # "" /\ e.key # ""

\* the Step a well-formed click or key event stands for
StepOfEvent(e) == IF IsClick(e) THEN ClickStep(e) ELSE KeyPressStep(e)

IsWellFormedClickOrKey(e) ==
    \/ IsClick(e) /\ ClickIsComplete(e)
    \/ IsKey(e) /\ KeyIsComplete(e)

WellFormedIn(t) == {k \in 1..Len(Log(t)) : IsWellFormedClickOrKey(Log(t)[k])}

NumWellFormed ==
    LET RECURSIVE Sum(_)
        Sum(t) == IF t > NumTabs THEN 0 ELSE Cardinality(WellFormedIn(t)) + Sum(t + 1)
    IN  Sum(1)

\* C18: a malformed stored event (click or input without url, xpath or tag,
\* key event without url or key, rrweb event without data) does not make the
\* conversion raise and adds no Step, and the well-formed events of every tab
\* have their Steps in each evaluation of the workflow.
C18_Original ==
    \A i \in 1..Len(evals) :
        /\ ~evals[i].threw
        /\ Len(evals[i].steps) = NumWellFormed
        /\ \A t \in Tabs : \A k \in WellFormedIn(t) :
              \E m \in 1..Len(evals[i].steps) :
                  evals[i].steps[m] = StepOfEvent(Log(t)[k])

---------------------------------------------------------------------------
(* Claims about repeated conversions *)

---------------------------------------------------------------------------
(* Claims about duplicated events *)

\* the i-th event of tab t's log is the stored event before it once more
IsDuplicate(t, i) == i >= 2 /\ i <= Len(Log(t)) /\ Log(t)[i] = Log(t)[i - 1]

\* the hash that would be emitted for the first i events of tab t's log
HashAfter(t, i) ==
    calculateSHA256(JSONstringify(SortByTimestamp(StepsAfter(t, i), 1, <<>>)))

IsNeverMerged(e) ==
    \/ IsClick(e) /\ ClickIsComplete(e)
    \/ IsKey(e) /\ KeyIsComplete(e)

IsMeta(e) == e.messageType = "RRWEB_EVENT" /\ e.type = EventType_Meta

---------------------------------------------------------------------------
(* Claims about the storing of received events *)

\* the received events of tab t whose screenshot is awaited, oldest first
PendingOf(t) == {i \in 1..Len(captures) : captures[i].tabId = t}

LastOf(seq) == seq[Len(seq)]

\* C16: the events of a tab are stored in the order in which they were
\* received: while a received event of the tab awaits its screenshot, the
\* only event stored for that tab is the oldest one that waits.
C16_Original ==
    [][\A t \in Tabs :
          sessionLogs'[t] # sessionLogs[t] /\ PendingOf(t) # {}
          => LET i == CHOOSE k \in PendingOf(t) : \A m \in PendingOf(t) : k <= m
             IN  /\ captures' = RemoveAt(captures, i)
                 /\ LastOf(sessionLogs'[t]).messageType = captures[i].type
                 /\ LastOf(sessionLogs'[t]).timestamp
                       = captures[i].payload.timestamp]_vars

\* C17: a custom event received while recording waits for the capture and
\* is stored when the callback runs, once, with the image when the capture
\* succeeded and without a screenshot when it failed; nothing else takes an
\* event out of the wait.
C17_StoredWithOrWithoutScreenshot ==
    [][/\ \A i \in 1..Len(captures) : \A d \in {NoShot, "jpeg1"} :
             CaptureDone(i, d)
             => /\ sessionLogs' =
                     [sessionLogs EXCEPT ![captures[i].tabId] =
                         Append(@, Stored(captures[i].tabId, captures[i].type,
                                          captures[i].payload, d))]
                /\ captures' = RemoveAt(captures, i)
       /\ captures' # captures
          => \/ /\ Len(captures') = Len(captures) + 1
                /\ SubSeq(captures', 1, Len(captures)) = captures
                /\ LastOf(captures').type \in customEventTypes
                /\ sessionLogs' = sessionLogs
             \/ \E i \in 1..Len(captures) : \E d \in {NoShot, "jpeg1"} :
                   /\ captures' = RemoveAt(captures, i)
                   /\ sessionLogs' =
                        [sessionLogs EXCEPT ![captures[i].tabId] =
                            Append(@, Stored(captures[i].tabId, captures[i].type,
                                             captures[i].payload, d))]]_vars

\* two clicks of a tab were stored, one after a capture that failed and one
\* with its screenshot, and no event waits
C17_Witness ==
    \E t \in Tabs : \E a, b \in 1..Len(Log(t)) :
        /\ IsClick(Log(t)[a]) /\ Log(t)[a].screenshot = NoShot
        /\ IsClick(Log(t)[b]) /\ Log(t)[b].screenshot = "jpeg1"
        /\ captures = <<>>

---------------------------------------------------------------------------
(* Claims about select and key events *)

IsSelect(e) == e.messageType = "CUSTOM_SELECT_EVENT"

\* C11: a select-change event stored for an activated tab appends a new
\* select Step to the Steps of its tab.
C11_Original ==
    \A t \in activatedTabs : \A i \in 1..Len(Log(t)) :
        IsSelect(Log(t)[i])
        => /\ Len(StepsAfter(t, i)) = Len(StepsBefore(t, i)) + 1
           /\ LastOf(StepsAfter(t, i)).type = "select"

\* the keys the handler is to let through unmodified
KeyAllowList ==
    {"Enter", "Tab", "Escape", "ArrowUp", "ArrowDown", "ArrowLeft",
     "ArrowRight", "Home", "End", "PageUp", "PageDown", "Backspace", "Delete"}

IsAllowedKeydown(k) ==
    \/ k.key \in KeyAllowList
    \/ (k.ctrlKey \/ k.metaKey) /\ Len(k.key) = 1 /\ k.key \in AlphaNumerics

SentKeydowns == {k \in 1..Len(domKeys) : domKeys[k].sent}

KeyEventsOf(t) == {i \in 1..Len(Log(t)) : IsKey(Log(t)[i])}

PendingKeysOf(t) ==
    {i \in PendingOf(t) : captures[i].type = "CUSTOM_KEY_EVENT"}

---------------------------------------------------------------------------
(* Claims about the scroll debounce of the content script *)

IsSample(k) == scrollLog[k].kind = "sample"

IsSent(k) == scrollLog[k].kind = "sent"

ScrollSamples == {k \in 1..Len(scrollLog) : IsSample(k)}

\* the sample before sample j, 0 when j is the first
PrevSample(j) ==
    IF \E i \in ScrollSamples : i < j
    THEN CHOOSE i \in ScrollSamples :
            i < j /\ \A m \in ScrollSamples : m < j => m <= i
    ELSE 0

\* a message sent by the handling of the sample itself, not by the timer
IsImmediate(k) == IsSent(k) /\ scrollLog[k].at = scrollLog[k].ts

\* a message the timer sent between entries i and j
TimerSentBetween(i, j) ==
    \E m \in (i + 1)..(j - 1) : IsSent(m) /\ ~IsImmediate(m)

\* the direction of sample j against the sample before it; an equal
\* position counts as upwards
DirectionOf(j) ==
    IF PrevSample(j) = 0 THEN NullDirection
    ELSE IF scrollLog[j].y > scrollLog[PrevSample(j)].y THEN "down" ELSE "up"

\* the direction of the gesture sample j arrives in: none after a pause
GestureDirection(j) ==
    IF PrevSample(j) = 0 \/ TimerSentBetween(PrevSample(j), j)
    THEN NullDirection
    ELSE DirectionOf(PrevSample(j))

Reverses(j) ==
    /\ GestureDirection(j) # NullDirection
    /\ DirectionOf(j) # GestureDirection(j)

\* sample i still waits for its timer when sample j arrives
IsBuffered(i, j) == \A m \in (i + 1)..(j - 1) : ~IsSent(m)

Carries(m, k) ==
    /\ IsSent(m)
    /\ scrollLog[m].ts = scrollLog[k].ts
    /\ scrollLog[m].y = scrollLog[k].y

LastSample == CHOOSE k \in ScrollSamples : \A m \in ScrollSamples : m <= k

C14_Original ==
    \A j \in ScrollSamples :
        (Reverses(j) /\ IsBuffered(PrevSample(j), j))
        => /\ j < Len(scrollLog)
           /\ Carries(j + 1, PrevSample(j))

---------------------------------------------------------------------------
(* Claims about the gating of tab events *)

TabLifecycleTypes ==
    {"CUSTOM_TAB_CREATED", "CUSTOM_TAB_UPDATED", "CUSTOM_TAB_REMOVED"}

\* the event names an opener whose intent is less than 4000 ms old
NamesRecentOpener(e) ==
    /\ e.openerTabId # 0
    /\ e.intentAt # NoIntent
    /\ e.at - e.intentAt < NEW_TAB_INTENT_WINDOW_MS

\* C15: a created, updated or removed event is stored exactly when recording
\* is enabled and the tab was activated before or the event names an opener
\* whose intent is less than 4000 ms old; an activation event is stored
\* whenever recording is enabled; an event that is not stored leaves every
\* log as it was.
C15_TabEventsAreGated ==
    \A k \in 1..Len(tabEvents) :
        LET e == tabEvents[k]
        IN  /\ e.type \in TabLifecycleTypes
               => (e.stored <=> /\ e.recording
                                /\ e.wasActivated \/ NamesRecentOpener(e))
            /\ e.type = "CUSTOM_TAB_ACTIVATED" => (e.stored <=> e.recording)
            /\ e.stored \/ e.untouched

\* a tab never activated was created by an opener with an intent 2500 ms old
\* and the event was stored; the same happened with an intent 5000 ms old and
\* the event was discarded
C15_Witness ==
    /\ Len(tabEvents) = 2
    /\ \A k \in 1..2 :
          /\ tabEvents[k].type = "CUSTOM_TAB_CREATED"
          /\ tabEvents[k].recording /\ ~tabEvents[k].wasActivated
          /\ tabEvents[k].openerTabId # 0 /\ tabEvents[k].intentAt = 0
    /\ tabEvents[1].at = TickMs /\ tabEvents[1].stored
    /\ tabEvents[2].at = 2 * TickMs /\ ~tabEvents[2].stored

---------------------------------------------------------------------------
(* Claims about the hash and the screenshots *)

WithoutScreenshots(steps) ==
    [k \in DOMAIN steps |-> [steps[k] EXCEPT !.screenshot = NoShot]]

DiffersOnlyInScreenshots(a, b) ==
    a # b /\ WithoutScreenshots(a) = WithoutScreenshots(b)

\* C21: an evaluation whose Steps differ from the Steps last emitted only in
\* screenshots has the hash of the last emission and emits no WORKFLOW_UPDATE.
C21_Original ==
    [][\A i \in 1..Len(evals) :
          (/\ Resumes(i) /\ ~evals[i].threw /\ HasUpdate
           /\ DiffersOnlyInScreenshots(evals[i].steps, LastUpdate.steps))
          => /\ serverLog' = serverLog
             /\ lastWorkflowHash' = lastWorkflowHash]_vars

\* C21 as amended: the hash covers the screenshots; an evaluation whose
\* Steps differ from the Steps last emitted only in a screenshot changes the
\* hash and emits a WORKFLOW_UPDATE with its Steps, and one whose Steps are
\* the same, screenshots included, emits nothing.
C21_HashCoversScreenshots ==
    [][\A i \in 1..Len(evals) :
          (Resumes(i) /\ ~evals[i].threw /\ HasUpdate)
          => /\ DiffersOnlyInScreenshots(evals[i].steps, LastUpdate.steps)
                => /\ lastWorkflowHash' # lastWorkflowHash
                   /\ Len(serverLog') > 0
                   /\ serverLog'[Len(serverLog')].type = "WORKFLOW_UPDATE"
                   /\ serverLog'[Len(serverLog')].steps = evals[i].steps
                   /\ serverLog' # serverLog
             /\ evals[i].steps = LastUpdate.steps
                => /\ serverLog' = serverLog
                   /\ lastWorkflowHash' = lastWorkflowHash]_vars

\* two updates were emitted one after the other whose Steps differ only in
\* the screenshot of an input Step
C21_Witness ==
    /\ Len(serverLog) = 2
    /\ serverLog[1].type = "WORKFLOW_UPDATE" /\ serverLog[2].type = "WORKFLOW_UPDATE"
    /\ DiffersOnlyInScreenshots(serverLog[1].steps, serverLog[2].steps)
    /\ Len(serverLog[2].steps) = 1
    /\ serverLog[2].steps[1].type = "input"

---------------------------------------------------------------------------
(* Claims about the delivery to the server *)

\* nothing is in flight in the background
IsQuiescent == posts = <<>> /\ evals = <<>> /\ captures = <<>>

HasFailed(seq) == \E k \in 1..Len(failed) : failed[k].seq = seq

WasReceived(seq) == \E k \in 1..Len(received) : received[k].seq = seq

\* a fetch fails in this step
FetchFails ==
    /\ Len(failed') = Len(failed) + 1
    /\ SubSeq(failed', 1, Len(failed)) = failed

\* C22: a failed delivery changes nothing in the background but the request
\* itself, events are stored and evaluated after it as before it, and the
\* event whose delivery failed is sent again: once nothing is in flight any
\* more the server has received it.
C22_Original ==
    /\ [](IsQuiescent => \A k \in 1..Len(failed) : WasReceived(failed[k].seq))
    /\ [][FetchFails => UNCHANGED <<now, bgVars>>]_vars

---------------------------------------------------------------------------
(* Claims about rrweb Meta events and frames *)

IsInteraction(e) ==
    e.messageType \in {"CUSTOM_CLICK_EVENT", "CUSTOM_INPUT_EVENT",
                       "CUSTOM_KEY_EVENT", "CUSTOM_SELECT_EVENT"}

\* an interaction in the frame of event i of tab t was recorded before it
FrameWasInteracted(t, i) ==
    \E j \in 1..(i - 1) :
        /\ IsInteraction(Log(t)[j])
        /\ Log(t)[j].frameUrl = Log(t)[i].frameUrl

\* C23: an rrweb Meta event of a frame in which no interaction was recorded
\* adds no Step.
C23_Original ==
    \A t \in Tabs : \A i \in 1..Len(Log(t)) :
        (IsMeta(Log(t)[i]) /\ ~FrameWasInteracted(t, i))
        => StepsAfter(t, i) = StepsBefore(t, i)

---------------------------------------------------------------------------
(* Claims about input Steps across tabs and frames *)

\* a Step of another tab lies between events j - 1 and j of tab t in the
\* recording
OtherTabStepBetween(t, j) ==
    \E u \in Tabs \ {t} :
        LET other == convertStoredEventsToSteps(Log(u), activatedTabs, tabInfo)
        IN  \E k \in 1..Len(other) :
               /\ Log(t)[j - 1].timestamp < other[k].timestamp
               /\ other[k].timestamp < Log(t)[j].timestamp

\* C29: when a Step of another tab was appended between two input events
\* of one element, the second input event appends a new input Step.
C29_Original ==
    \A t \in Tabs : \A j \in 2..Len(Log(t)) :
        (/\ IsInput(Log(t)[j - 1]) /\ IsInput(Log(t)[j])
         /\ SameTarget(Log(t)[j - 1], Log(t)[j])
         /\ Log(t)[j].value # ""
         /\ OtherTabStepBetween(t, j))
        => StepsAfter(t, j) = Append(StepsBefore(t, j), InputStep(Log(t)[j]))

SameFrameAndAddress(step, e) ==
    /\ step.type = "input"
    /\ step.tabId = e.tabId
    /\ step.frameUrl = e.frameUrl
    /\ step.xpath = e.xpath

\* C30: an input event that appends no Step was merged into, or suppressed
\* against, an input Step of its own tab, frame and address, and no other
\* Step changed.
C30_Original ==
    \A t \in Tabs : \A i \in 1..Len(Log(t)) :
        LET e == Log(t)[i]
            before == StepsBefore(t, i)
            after == StepsAfter(t, i)
        IN  (IsInput(e) /\ InputIsComplete(e) /\ Len(after) = Len(before))
            => \E k \in 1..Len(before) :
                  /\ SameFrameAndAddress(before[k], e)
                  /\ \A m \in 1..Len(before) : m # k => after[m] = before[m]

---------------------------------------------------------------------------
(* Claims about the resolution of an element from its addresses *)

Resolved == lastResolution.handler # "none"

PositionPathElement == evaluate(getXPath(lastResolution.target))

Candidates == querySelectorAll(getEnhancedCSSSelector(lastResolution.target))

PointIsKnown == lastResolution.handler = "mouseover"

ContainsPoint(element) ==
    /\ lastResolution.point[1] >= document[element].rect.left
    /\ lastResolution.point[1] <= document[element].rect.right
    /\ lastResolution.point[2] >= document[element].rect.top
    /\ lastResolution.point[2] <= document[element].rect.bottom

CandidatesWithPoint == {i \in 1..Len(Candidates) : ContainsPoint(Candidates[i])}

PositionPathFirst ==
    /\ lastResolution.selectorEvaluated => PositionPathElement = NoNode
    /\ PositionPathElement # NoNode => lastResolution.element = PositionPathElement

\* C28: the position path is tried first and the attribute expression is
\* evaluated only when the path finds no element; among several candidates
\* the element is one that contains the interaction point and otherwise the
\* first candidate in document order.
C28_Original ==
    Resolved =>
        /\ PositionPathFirst
        /\ (PositionPathElement = NoNode /\ Len(Candidates) > 1) =>
              IF PointIsKnown /\ CandidatesWithPoint # {}
              THEN \E i \in CandidatesWithPoint :
                      lastResolution.element = Candidates[i]
              ELSE lastResolution.element = Candidates[1]

\* C28 (amended): the position path is tried first and the attribute
\* expression is evaluated only when the path finds no element; among
\* several candidates, with a known interaction point the element is the
\* first candidate in document order that contains the point, and no
\* element when none contains it; without a known point it is the first
\* candidate in document order.
C28_NoElementWhenNoneContainsThePoint ==
    Resolved =>
        /\ PositionPathFirst
        /\ (PositionPathElement = NoNode /\ Len(Candidates) > 1) =>
              IF PointIsKnown
              THEN IF CandidatesWithPoint = {}
                   THEN lastResolution.element = NoNode
                   ELSE \E i \in CandidatesWithPoint :
                           /\ lastResolution.element = Candidates[i]
                           /\ \A j \in CandidatesWithPoint : i <= j
              ELSE lastResolution.element = Candidates[1]

C28_Witness ==
    /\ Resolved
    /\ PointIsKnown
    /\ PositionPathElement = NoNode
    /\ Len(Candidates) > 1
    /\ CandidatesWithPoint = {}
    /\ lastResolution.element = NoNode
    /\ currentOverlay = NoOverlay

---------------------------------------------------------------------------
(* Claims about the Execution Engine *)

StepsOfRun == 1..Len(workflow)

RequestsFor(i) ==
    {k \in 1..Len(recoveryRequests) : recoveryRequests[k].step = i}

NotBegun(i) == stepState[i] = "Pending" /\ ~strategies[i].tried

NoLaterStepExecutes(i) == \A j \in StepsOfRun : j > i => NotBegun(j)

LeavesPendingUnresolved(i) ==
    /\ stepState[i] = "Pending"
    /\ stepState'[i] # "Pending"
    /\ ~(workflow[i].placeholders \subseteq context)

\* C24: a Step with a placeholder whose variable the Variable Context
\* does not hold aborts the run at that Step with MissingVariable: the
\* Step is not resolved, not retried, not escalated, and no later Step
\* executes.
C24_MissingVariableAborts ==
    /\ [](\A i \in StepsOfRun :
            stepError[i] = "MissingVariable" =>
                /\ stepState[i] = "FailedFatal"
                /\ runStatus = "aborted"
                /\ ~strategies[i].tried
                /\ RequestsFor(i) = {}
                /\ NoLaterStepExecutes(i))
    /\ [][\A i \in StepsOfRun :
            LeavesPendingUnresolved(i) => stepError'[i] = "MissingVariable"]_vars

C24_Witness ==
    \E i \in StepsOfRun :
        /\ i < Len(workflow)
        /\ stepError[i] = "MissingVariable"
        /\ stepState[i] = "FailedFatal"
        /\ NoLaterStepExecutes(i)

RecoveryFails(i) == Recover(i, "exhausted") \/ Cancel(i)

\* C25: a Step is escalated to the Recovery Agent at most once; when the
\* recovery fails the Step is FailedFatal, no later Step executes, and the
\* outcome of a Step that reached a terminal state never changes.
C25_EscalatedAtMostOnce ==
    /\ [](\A i \in StepsOfRun :
            /\ Cardinality(RequestsFor(i)) <= 1
            /\ stepState[i] = "FailedFatal" => NoLaterStepExecutes(i))
    /\ [][\A i \in StepsOfRun :
            /\ RecoveryFails(i) => stepState'[i] = "FailedFatal"
            /\ stepState[i] \in TerminalStates => stepState'[i] = stepState[i]]_vars

C25_Witness ==
    \E i \in StepsOfRun :
        /\ 1 < i
        /\ stepState[i] = "FailedFatal"
        /\ stepError[i] = "RecoveryExhausted"
        /\ Cardinality(RequestsFor(i)) = 1
        /\ stepState[1] = "FailedRecovered"

BothStrategiesFailed(i) ==
    /\ strategies[i].tried
    /\ ~strategies[i].positionPath
    /\ ~strategies[i].attributes

\* C26: when both resolver strategies fail for a Step the Recovery Agent
\* is invoked with that Step's free-text description; when the agent
\* reports satisfied the Step is FailedRecovered and the run goes on; the
\* agent is not invoked for a Step whose deterministic execution succeeded.
C26_RecoveryAgentOnFailureOnly ==
    /\ [](\A i \in StepsOfRun :
            /\ BothStrategiesFailed(i) =>
                  \/ stepState[i] = "Escalating"
                  \/ \E k \in RequestsFor(i) :
                        recoveryRequests[k].description = workflow[i].description
            /\ stepState[i] = "Succeeded" => RequestsFor(i) = {}
            /\ stepState[i] = "FailedRecovered" =>
                  runStatus \in {"running", "completed"}
                  \/ \E j \in StepsOfRun : j > i /\ stepState[j] = "FailedFatal")
    /\ [][\A i \in StepsOfRun :
            Recover(i, "satisfied") =>
                /\ stepState'[i] = "FailedRecovered"
                /\ runStatus' = "running"]_vars

C26_Witness ==
    /\ Len(workflow) > 1
    /\ workflow[1].description # workflow[2].description
    /\ BothStrategiesFailed(2)
    /\ \E k \in RequestsFor(2) :
          recoveryRequests[k].description = workflow[2].description
    /\ stepState[2] = "FailedRecovered"
    /\ stepState[1] = "Succeeded"
    /\ runStatus = "completed"

InProgress(i) ==
    stepState[i] \in {"Resolving", "Acting", "Escalating", "Recovering"}

\* C27: Steps execute in Step order and one at a time: a Step has left
\* Pending only when the Step before it has reached a terminal state and
\* the outputs that Step declares are in the Variable Context.
C27_StrictlySequential ==
    /\ Cardinality({i \in StepsOfRun : InProgress(i)}) <= 1
    /\ \A i \in StepsOfRun :
          (i > 1 /\ stepState[i] # "Pending") =>
              /\ stepState[i - 1] \in TerminalStates
              /\ workflow[i - 1].outputs \subseteq context
              /\ \A j \in StepsOfRun : j < i => ~InProgress(j)

C27_Witness ==
    /\ Len(workflow) > 1
    /\ InProgress(2)
    /\ workflow[1].outputs # {}
    /\ workflow[1].outputs = workflow[2].placeholders
    /\ stepState[1] \in TerminalStates

---------------------------------------------------------------------------
(* Claims about the independence of the tabs *)

\* the tab events of tab t that were stored, in the order they were fired
StoredTabEventsOf(t) ==
    SelectSeq(tabEvents, LAMBDA e : e.tabId = t /\ e.stored)

\* the Steps of tab t in the recording, in the order of the recording
RecordedStepsOf(t) == SelectSeq(allSteps, LAMBDA step : step.tabId = t)

LogIsOwnEvents(t) ==
    /\ Len(sessionLogs[t]) = Len(StoredTabEventsOf(t))
    /\ \A k \in 1..Len(sessionLogs[t]) :
          /\ sessionLogs[t][k].messageType = StoredTabEventsOf(t)[k].type
          /\ sessionLogs[t][k].timestamp = StoredTabEventsOf(t)[k].at

StepsAreOwnLog(t) ==
    RecordedStepsOf(t) =
        SortByTimestamp(convertStoredEventsToSteps(sessionLogs[t], activatedTabs,
                                                   tabInfo), 1, <<>>)

---------------------------------------------------------------------------
(* Claims about scroll Steps *)

IsScroll(e) ==
    /\ e.messageType = "RRWEB_EVENT"
    /\ e.type = EventType_IncrementalSnapshot
    /\ e.source = IncrementalSource_Scroll

IsScrollStepOf(step, e) ==
    /\ step.type = "scroll"
    /\ step.tabId = e.tabId
    /\ step.targetId = e.id

\* a scroll message rewrites the last Step when that is a scroll Step of its
\* tab and target id, and appends a scroll Step in every other case
ScrollUpdatesOrAppends(t, i) ==
    LET e == Log(t)[i]
        before == StepsBefore(t, i)
        after == StepsAfter(t, i)
        n == Len(before)
    IN  IF n > 0 /\ IsScrollStepOf(before[n], e)
        THEN /\ Len(after) = n
             /\ \A k \in 1..(n - 1) : after[k] = before[k]
             /\ after[n] = [before[n] EXCEPT !.scrollX = e.x, !.scrollY = e.y,
                                             !.timestamp = e.timestamp]
        ELSE /\ Len(after) = n + 1
             /\ \A k \in 1..n : after[k] = before[k]
             /\ after[n + 1].type = "scroll"
             /\ after[n + 1].targetId = e.id
             /\ after[n + 1].scrollY = e.y
             /\ after[n + 1].timestamp = e.timestamp

NoAdjacentScrollsOfOneTarget(steps) ==
    \A k \in 1..(Len(steps) - 1) :
        (/\ steps[k].type = "scroll" /\ steps[k + 1].type = "scroll"
         /\ steps[k].tabId = steps[k + 1].tabId)
        => steps[k].targetId # steps[k + 1].targetId

ScrollRule ==
    \A t \in Tabs : \A i \in 1..Len(Log(t)) :
        IsScroll(Log(t)[i]) => ScrollUpdatesOrAppends(t, i)

\* C32: a scroll message updates the previous Step in place exactly when
\* that Step is a scroll Step of the same tab and target id and appends a
\* scroll Step otherwise, and two consecutive scroll Steps of one tab in
\* the recording never have the same target id.
C32_Original ==
    /\ ScrollRule
    /\ NoAdjacentScrollsOfOneTarget(allSteps)

\* C32 (amended): the same rule, and two consecutive scroll Steps never
\* have the same target id in the Steps converted from one tab's log,
\* before the recording is sorted by timestamp.
C32_NoAdjacentScrollsBeforeSort ==
    /\ ScrollRule
    /\ \A t \in Tabs :
          NoAdjacentScrollsOfOneTarget(
              convertStoredEventsToSteps(Log(t), activatedTabs, tabInfo))

\* an emptied input between two scroll Steps of one target took the
\* timestamp of a later empty input, and the sort brought the two scroll
\* Steps together
C32_Witness ==
    LET converted == convertStoredEventsToSteps(Log(ContentTab), activatedTabs,
                                                tabInfo)
    IN  /\ Len(Log(ContentTab)) = MaxScrollEvents
        /\ Len(converted) = 3
        /\ converted[1].type = "scroll" /\ converted[3].type = "scroll"
        /\ converted[1].targetId = converted[3].targetId
        /\ converted[2].type = "input"
        /\ converted[2].timestamp > converted[3].timestamp
        /\ ~NoAdjacentScrollsOfOneTarget(allSteps)

---------------------------------------------------------------------------
(* The frame path of a message *)

\* the indices of a nested window, joined as computeFrameIdPath joins them
PathOfIndices(w) == Join(w)

\* a click of window w carries the path of w, and no other window's clicks
\* would carry it
PathIdentifiesWindow(click) ==
    /\ click.window # TopWindow
            => click.message.frameIdPath = PathOfIndices(click.window)
    /\ \A w \in Windows :
          computeFrameIdPath(w) = click.message.frameIdPath
              => w = click.window

\* C33: the frame path of an event identifies its frame: a nested frame's
\* events carry the child indices from the top document, and no two
\* different frames, the top document and its first child frame among them,
\* get the same path
C33_Original ==
    \A k \in DOMAIN domClicks : PathIdentifiesWindow(domClicks[k])

---------------------------------------------------------------------------
(* The recorder of the content script *)

\* rrweb records and the handlers are attached
RecorderIsRunning == stopRecording /\ isRecordingActive

\* C34: the recorder of the content script is running whenever the last
\* recording status the script received is enabled, whatever initial status
\* responses and SET_RECORDING_STATUS messages came before it, a page loaded
\* while recording was stopped included
C34_Original == lastStatus = "enabled" => RecorderIsRunning

---------------------------------------------------------------------------
(* The recording session *)

IsStarted(e) == e.type = "RECORDING_STARTED"

IsStopped(e) == e.type = "RECORDING_STOPPED"

\* the events of the logs, all tabs together
StoredEvents == UNION {Range(Log(t)) : t \in Tabs}

\* C35: after START_RECORDING the recording holds only events received after
\* that START: no event received earlier, one whose capture was in flight
\* included, is in the logs once the start was notified
C35_Original ==
    \A k \in DOMAIN serverLog :
        IsStarted(serverLog[k])
            => \A e \in StoredEvents : e.timestamp >= serverLog[k].timestamp

\* C36: while recording is disabled, from STOP until the next START, the
\* session logs and the Steps do not change, whatever event of a content
\* script, of a tab or of a screenshot callback occurs
C36_Original ==
    [][(~isRecordingEnabled /\ ~isRecordingEnabled')
          => (sessionLogs' = sessionLogs /\ allSteps' = allSteps)]_vars

\* the start and stop notifications among the events kept of the server
Notifications == SelectSeq(serverLog, LAMBDA e : IsStarted(e) \/ IsStopped(e))

\* C40: RECORDING_STARTED and RECORDING_STOPPED alternate and begin with
\* RECORDING_STARTED: no RECORDING_STOPPED comes before a RECORDING_STARTED
C40_Original ==
    /\ \A k \in 1..(Len(Notifications) - 1) :
          Notifications[k].type # Notifications[k + 1].type
    /\ (Len(serverLog) < HistoryLen /\ Notifications # <<>>)
          => IsStarted(Notifications[1])

---------------------------------------------------------------------------
(* The update last emitted *)

\* the WORKFLOW_UPDATE emitted last, among the events kept of the server
LastEmitted == serverLog[CHOOSE k \in Updates : \A j \in Updates : j <= k]

\* C37: whenever no evaluation of broadcastWorkflowDataUpdate is in flight
\* the WORKFLOW_UPDATE emitted last carries the current Steps
C37_Original ==
    (evals = <<>> /\ Updates # {}) => LastEmitted.steps = allSteps

---------------------------------------------------------------------------
(* The scroll samples of several targets *)

\* the last sample rrweb emitted for the target id
LastSampleOf(id) ==
    CHOOSE k \in ScrollSamples :
        /\ scrollLog[k].id = id
        /\ \A j \in ScrollSamples : scrollLog[j].id = id => j <= k

\* the sample at k was sent, or the debounce timer still holds it
SentOrBuffered(k) ==
    \/ \E m \in k..Len(scrollLog) :
          Carries(m, k) /\ scrollLog[m].id = scrollLog[k].id
    \/ /\ scrollTimeout.set
       /\ scrollTimeout.event.id = scrollLog[k].id
       /\ scrollTimeout.event.timestamp = scrollLog[k].ts
       /\ scrollTimeout.event.y = scrollLog[k].y

\* C39: for every scroll target the final position of a gesture is sent in
\* the end: the last sample of a target was sent or is still buffered, and
\* is not lost to a sample of another target within the quiet period
C39_Original ==
    \A id \in ScrollTargets :
        (\E k \in ScrollSamples : scrollLog[k].id = id)
            => SentOrBuffered(LastSampleOf(id))

---------------------------------------------------------------------------
(* The text typed into a password field *)

\* the input messages stored for the password elements of tab t
PasswordInputsOf(t) ==
    {e \in Range(Log(t)) : IsInput(e) /\ e.xpath \in PasswordXPaths}

\* C38: no field of a message sent for a password element depends on the
\* text typed into it: the input messages of one password element, whatever
\* was typed, carry the same value, targetText and cssSelector
C38_Original ==
    \A t \in Tabs : \A a, b \in PasswordInputsOf(t) :
        a.xpath = b.xpath
            => /\ a.value = b.value
               /\ a.targetText = b.targetText
               /\ a.cssSelector = b.cssSelector

===========================================================================
